---- MODULE Spec2Model ----
(***************************************************************************)
(* agentfox: the IPC broker (IpcServer), its frame codec (FrameDecoder),   *)
(* the MCP gateway's use of the broker, and the native-messaging relay.    *)
(*                                                                         *)
(* Time is abstracted: a timer is a flag that is armed by setTimeout /     *)
(* setInterval, cleared by clearTimeout / clearInterval, and whose         *)
(* callback is an action enabled while the flag is armed.                  *)
(*                                                                         *)
(* Bytes are integers.  A JSON text is abstracted to a short byte string:  *)
(* a tag byte, followed by an id byte for the envelopes that carry a       *)
(* correlation id (see Stringify / JsonParse).                             *)
(***************************************************************************)
EXTENDS Integers, Sequences, FiniteSets, TLC

\* ------------------------------------------------------------------ bounds
MaxSubs == 2
MaxSocks == 2
MaxWire == 11
MaxPieces == 2
MaxCmds == 2
MaxChunks == 2
MaxBg == 2
MaxReconnects == 6
MaxElems == 2
MaxSnaps == 2
MaxDoc == 3
MaxFields == 3
MaxOptions == 2
MaxWaits == 3
MaxNavs == 2
MaxMuts == 4

Subs == 1..MaxSubs
Ids == 1..MaxSubs
Socks == 1..MaxSocks

\* ------------------------------------------------------------ frame codec

\* JSON.stringify of an IPC envelope, as bytes.
Stringify(m) ==
  IF m.type = "response" THEN <<1, m.id>>
  ELSE IF m.type = "command" THEN <<4, m.id>>
  ELSE IF m.type = "ping" THEN <<2>>
  ELSE IF m.type = "pong" THEN <<3>>
  ELSE <<0>>

\* JSON.parse: a message, or [type |-> "SyntaxError"] when JSON.parse throws.
JsonParse(json) ==
  IF Len(json) = 2 /\ json[1] = 1 THEN [type |-> "response", id |-> json[2]]
  ELSE IF Len(json) = 2 /\ json[1] = 4 THEN [type |-> "command", id |-> json[2]]
  ELSE IF json = <<2>> THEN [type |-> "ping", id |-> 0]
  ELSE IF json = <<3>> THEN [type |-> "pong", id |-> 0]
  ELSE IF json = <<0>> THEN [type |-> "other", id |-> 0]
  ELSE [type |-> "SyntaxError", id |-> 0]

\* Buffer.writeUInt32BE for the lengths the model uses (< 256).
UInt32BE(n) == <<0, 0, 0, n>>

ReadUInt32BE(buf) ==
  buf[1] * 16777216 + buf[2] * 65536 + buf[3] * 256 + buf[4]

encodeFrame(m) == UInt32BE(Len(Stringify(m))) \o Stringify(m)

IPC_MAX_FRAME == 64 * 1024 * 1024

\* The while loop of FrameDecoder.push.  A throw leaves the function without
\* returning: the messages decoded earlier in the same call are not returned.
RECURSIVE PushLoop(_, _)
PushLoop(buf, msgs) ==
  IF Len(buf) < 4 THEN [buffer |-> buf, messages |-> msgs, error |-> "none"]
  ELSE LET messageLength == ReadUInt32BE(buf) IN
    IF messageLength > IPC_MAX_FRAME
    THEN [buffer |-> buf, messages |-> <<>>, error |-> "Frame too large"]
    ELSE IF Len(buf) < 4 + messageLength
    THEN [buffer |-> buf, messages |-> msgs, error |-> "none"]
    ELSE LET json == SubSeq(buf, 5, 4 + messageLength)
             rest == SubSeq(buf, 5 + messageLength, Len(buf))
         IN IF JsonParse(json).type = "SyntaxError"
            THEN [buffer |-> rest, messages |-> <<>>, error |-> "SyntaxError"]
            ELSE PushLoop(rest, Append(msgs, JsonParse(json)))

\* FrameDecoder.push(data)
Push(buffer, data) == PushLoop(buffer \o data, <<>>)


\* ------------------------------------------------------- IPC broker state

VARIABLES
  server,           \* IpcServer.server: "listening" after start(), "closed" after close()
  client,           \* IpcServer.client: the attached socket, 0 for null
  sock,             \* per socket: "none", "open" (accepted, handlers installed),
                    \* "destroyed" (destroy() called, 'close' not yet emitted),
                    \* "rejected" (destroyed on arrival), "closed" ('close' handled)
  nsock,            \* number of connections the listener has delivered
  hasEverConnected, \* IpcServer._hasEverConnected
  decoder,          \* IpcServer.decoder.buffer
  pending,          \* IpcServer.pending: correlation id -> submission (0: no entry)
  nsub,             \* number of sendCommand calls accepted so far
  cmdId,            \* command.id of each submission
  timerArmed,       \* the setTimeout of each submission's PendingCommand is armed
  wr,               \* the client.write callback of each submission: "none",
                    \* "inflight", "called"
  settles,          \* the calls of resolve / reject of each submission, in order
  hb,               \* heartbeatInterval, pongTimeout, awaitingPong
  emitted,          \* how often 'client-connected' / 'client-disconnected' were emitted
  lastError,        \* the last 'error' event emitted
  discarded,        \* id of the last 'response' dropped for want of a pending entry (0: none)
  wire              \* bytes the attached peer has sent that no 'data' event delivered yet

brokerVars == <<server, client, sock, nsock, hasEverConnected, decoder, pending,
                nsub, cmdId, timerArmed, wr, settles, hb, emitted, lastError,
                discarded, wire>>

VARIABLE waits      \* one record per call of IpcServer.waitForConnection: its
                    \* 'client-connected' listener is registered, its timer
                    \* ("none", "armed", "cleared", "fired"), and the calls of
                    \* resolve / reject on its promise, in order

InitBroker ==
  /\ server = "listening"
  /\ client = 0
  /\ sock = [s \in Socks |-> "none"]
  /\ nsock = 0
  /\ hasEverConnected = FALSE
  /\ decoder = <<>>
  /\ pending = [i \in Ids |-> 0]
  /\ nsub = 0
  /\ cmdId = [s \in Subs |-> 0]
  /\ timerArmed = [s \in Subs |-> FALSE]
  /\ wr = [s \in Subs |-> "none"]
  /\ settles = [s \in Subs |-> <<>>]
  /\ hb = [interval |-> FALSE, pongTimeout |-> "null", awaitingPong |-> FALSE]
  /\ emitted = [connected |-> 0, disconnected |-> 0]
  /\ lastError = "none"
  /\ discarded = 0
  /\ wire = <<>>
  /\ waits = <<>>

\* A call of a PendingCommand's resolve or reject.  inTable records whether the
\* pending table still held an entry under the command's id when the call was
\* made, via the socket a resolving response came from.
Settle(st, s, kind, id, table) ==
  [st EXCEPT !.settles[s] =
     Append(@, [kind |-> kind, id |-> id, inTable |-> table[cmdId[s]] # 0,
                via |-> IF kind = "response" THEN client ELSE 0])]

\* The future returned by sendCommand: a promise keeps its first settlement.
Outcome(s) == IF settles[s] = <<>> THEN "none" ELSE settles[s][1].kind

\* IpcServer.stopHeartbeat / startHeartbeat, on the heartbeat fields.
stopHeartbeat(h) ==
  [interval |-> FALSE, pongTimeout |-> "null", awaitingPong |-> FALSE]

startHeartbeat(h) == [stopHeartbeat(h) EXCEPT !.interval = TRUE]

\* The part of the broker that handleMessage and the rejection loops change.
Core == [pending |-> pending, timerArmed |-> timerArmed, settles |-> settles,
         hb |-> hb, discarded |-> discarded]

SetCore(st) ==
  /\ pending' = st.pending
  /\ timerArmed' = st.timerArmed
  /\ settles' = st.settles
  /\ hb' = st.hb
  /\ discarded' = st.discarded

\* handleMessage, case 'response': the entry is looked up by the payload's id.
HandleResponseByOrder(st, msg) ==
  LET live == {i \in Ids : st.pending[i] # 0} IN
  IF live = {} THEN st
  ELSE LET i == CHOOSE j \in live : \A k \in live : st.pending[j] <= st.pending[k]
           p == st.pending[i]
           t1 == [st EXCEPT !.timerArmed[p] = FALSE, !.pending[i] = 0]
       IN Settle(t1, p, "response", msg.id, t1.pending)

HandleResponse(st, msg) ==
  IF msg.id \in Ids /\ st.pending[msg.id] # 0
  THEN LET p == st.pending[msg.id]
           t1 == [st EXCEPT !.timerArmed[p] = FALSE, !.pending[msg.id] = 0]
       IN Settle(t1, p, "response", msg.id, t1.pending)
  ELSE [st EXCEPT !.discarded = msg.id]

\* handleMessage, case 'pong', without its clearTimeout.
HandlePongKeepsTimer(st) ==
  [st EXCEPT !.hb.awaitingPong = FALSE]

\* handleMessage, case 'pong'
HandlePong(st) ==
  [st EXCEPT !.hb.awaitingPong = FALSE, !.hb.pongTimeout = "null"]

\* IpcServer.handleMessage.  The pong written in answer to a 'ping' leaves the
\* broker's state unchanged.
HandleMessage(st, msg) ==
  IF msg.type = "response" THEN HandleResponse(st, msg)
  ELSE IF msg.type = "pong" THEN HandlePong(st)
  ELSE st

RECURSIVE HandleMessages(_, _)
HandleMessages(st, msgs) ==
  IF msgs = <<>> THEN st
  ELSE HandleMessages(HandleMessage(st, Head(msgs)), Tail(msgs))

\* for (const pending of this.pending.values()) { clearTimeout; reject(kind) }
\* followed by this.pending.clear()
RECURSIVE RejectLoopKeepTimers(_, _, _)
RejectLoopKeepTimers(st, ids, kind) ==
  IF ids = {} THEN st
  ELSE LET i == CHOOSE j \in ids : \A k \in ids : j <= k
           p == st.pending[i]
       IN RejectLoopKeepTimers(Settle(st, p, kind, 0, st.pending), ids \ {i}, kind)

RECURSIVE RejectLoop(_, _, _)
RejectLoop(st, ids, kind) ==
  IF ids = {} THEN st
  ELSE LET i == CHOOSE j \in ids : \A k \in ids : j <= k
           p == st.pending[i]
           t1 == [st EXCEPT !.timerArmed[p] = FALSE]
       IN RejectLoop(Settle(t1, p, kind, 0, t1.pending), ids \ {i}, kind)

RejectAll(st, kind) ==
  [RejectLoop(st, {i \in Ids : st.pending[i] # 0}, kind)
     EXCEPT !.pending = [i \in Ids |-> 0]]


\* --------------------------------------------- state of the other components

VARIABLES
  stream,           \* decoder harness: the byte stream under test
  posA, posB,       \* bytes of the stream already pushed into decoder A / B
  bufA, bufB,       \* FrameDecoder.buffer of decoder A / B
  outA, outB        \* messages returned so far by the pushes into A / B

decVars == <<stream, posA, posB, bufA, bufB, outA, outB>>

VARIABLES
  relayCmds,        \* relay: commands handed to onCommand, in order of arrival
  wstate,           \* per command: "none", "queued" (its link of writeChain has not
                    \* run), "writing" (stdout.write called, callback outstanding),
                    \* "done", "failed"
  written,          \* per command: bytes of its frame accepted by stdout so far
  stdout,           \* the bytes on the relay's standard output, in order
  shuttingDown,     \* native-host main: shuttingDown
  ipcOpen,          \* the relay's IpcClient socket is open
  exitTimer,        \* setTimeout(() => process.exit(0), 50) is armed
  exited            \* process.exit was called

relayVars == <<relayCmds, wstate, written, stdout, shuttingDown, ipcOpen,
               exitTimer, exited>>

VARIABLES
  stdinOpen,        \* relay: the for-await loop over standard input is still running
  stdinBuf,         \* readNativeMessages: buffer
  nchunks,          \* chunks standard input has delivered so far
  forwarded,        \* ids of the responses handed to ipc.sendResponse with the socket open
  healthArmed,      \* healthCheckInterval is armed
  nshutdown         \* how often shutdown ran past its guard (ipc.close, exit timer)

relayInVars == <<stdinOpen, stdinBuf, nchunks, forwarded, healthArmed, nshutdown>>

VARIABLES
  waiters,          \* gateway: tool calls suspended in ipcServer.waitForConnection
  toolError,        \* gateway: the message of the last error a tool call returned
                    \* without submitting a command ("none" at start)
  gwPhase           \* gateway: "running", "closing" (shutdown awaits mcpServer.close()),
                    \* "exited"

gwVars == <<waiters, toolError, gwPhase>>

VARIABLES
  port,             \* background: the native port, "null" or "open"
  reconnectAttempts,\* background: reconnectAttempts
  reconnectTimer,   \* background: delay in ms of the armed setTimeout(connect), 0 if none
  reconnects,       \* reconnect attempts (timer-run connect calls) since the last
                    \* inbound message
  bg,               \* background: the inbound messages, each with its route, the
                    \* state of its handleCommand and the responses posted for it
  live              \* background: how many ports connectNative returned that have
                    \* not disconnected, and how many setTimeout(connect) timers
                    \* have not fired

bgVars == <<port, reconnectAttempts, reconnectTimer, reconnects, bg, live>>

VARIABLES
  dom,              \* content: the interactive elements that are in the document
  refMap,           \* content: refMap, from the number n of the ref "e<n>" to an
                    \* element, 0 where the map has no entry
  gen,              \* snapshots built so far
  mutGen,           \* the value of gen at the latest structural mutation
  issued,           \* the refs the snapshots have returned, each with the snapshot
                    \* that returned it and the element it was assigned to
  lastAct           \* the latest action that supplied a ref, and what resolveRef did

contentVars == <<dom, refMap, gen, mutGen, issued, lastAct>>

Elems == 1..MaxElems
RefNums == 0..(MaxElems - 1)

VARIABLE call       \* content: the latest call of a handler with the input it
                    \* was given and what it returned

VARIABLE nav        \* background: the status of each tab ("loading", "complete",
                    \* "removed") and one record per waitForTabLoad call: its
                    \* tab, its timer ("armed", "cleared", "fired"), whether its
                    \* onUpdated and onRemoved listeners are registered, whether
                    \* its tabs.query is outstanding, and the calls of resolve /
                    \* reject on its promise, in order

VARIABLE wf         \* content: the wait_for call in progress: whether the text
                    \* is in the body now, the timeout timer, the debounce timer,
                    \* the observer, the resolved flag, the values resolve was
                    \* called with, and the mutations seen so far

\* The background after its entry point has run connect() with success, and
\* the content script of an empty page of which no snapshot was taken yet.
InitExtension ==
  /\ port = "open"
  /\ reconnectAttempts = 0
  /\ reconnectTimer = 0
  /\ live = [ports |-> 1, timers |-> 0]
  /\ reconnects = 0
  /\ bg = <<>>
  /\ dom = {}
  /\ refMap = [n \in RefNums |-> 0]
  /\ gen = 0
  /\ mutGen = 0
  /\ issued = {}
  /\ lastAct = [outcome |-> "none"]
  /\ call = [op |-> "none"]
  /\ nav = [tabs |-> [t \in {1, 2} |-> "complete"], waits |-> <<>>]
  /\ wf = [mode |-> "none", present |-> FALSE, timeout |-> "none", debounce |-> "null",
           observer |-> FALSE, resolved |-> FALSE, settles |-> <<>>, muts |-> 0]

\* The variables outside the gateway process, the relay, the decoder harness,
\* the background and the content script.
outsideServer == <<decVars, relayVars, relayInVars, bgVars, contentVars, call, waits, nav, wf>>
outsideRelay == <<brokerVars, gwVars, decVars, bgVars, contentVars, call, waits, nav, wf>>
outsideDecoder == <<brokerVars, gwVars, relayVars, relayInVars, bgVars, contentVars, call, waits, nav, wf>>
outsideBackground == <<brokerVars, gwVars, decVars, relayVars, relayInVars, contentVars, call, waits, nav, wf>>
outsideContent == <<brokerVars, gwVars, decVars, relayVars, relayInVars, bgVars, call, waits, nav, wf>>
outsideTabLoad == <<brokerVars, gwVars, decVars, relayVars, relayInVars, bgVars, contentVars,
                    call, waits, wf>>
outsideWaitFor == <<brokerVars, gwVars, decVars, relayVars, relayInVars, bgVars, contentVars,
                    call, waits, nav>>
outsideHandlers == <<brokerVars, gwVars, decVars, relayVars, relayInVars, bgVars, contentVars,
                     waits, nav, wf>>

vars == <<brokerVars, decVars, relayVars, relayInVars, gwVars, bgVars, contentVars, call,
          waits, nav, wf>>

\* ---------------------------------------------------- IPC broker actions

\* IpcServer.sendCommand, for a connected broker (with no client the call
\* returns a rejected promise and changes nothing).
SendCommand(id) ==
  /\ client # 0
  /\ nsub < MaxSubs
  /\ nsub' = nsub + 1
  /\ cmdId' = [cmdId EXCEPT ![nsub + 1] = id]
  /\ timerArmed' = [timerArmed EXCEPT ![nsub + 1] = TRUE]
  /\ pending' = [pending EXCEPT ![id] = nsub + 1]
  /\ wr' = [wr EXCEPT ![nsub + 1] = "inflight"]
  /\ UNCHANGED <<server, client, sock, nsock, hasEverConnected, decoder,
                 settles, hb, emitted, lastError>>
  /\ UNCHANGED <<discarded, wire, gwVars, outsideServer>>

\* The setTimeout callback of sendCommand: delete the entry, then reject.
TimeoutRejectFirst(s) ==
  /\ timerArmed[s]
  /\ LET t0 == [Core EXCEPT !.timerArmed[s] = FALSE]
         t1 == Settle(t0, s, "timeout", 0, t0.pending)
     IN SetCore([t1 EXCEPT !.pending[cmdId[s]] = 0])
  /\ UNCHANGED <<server, client, sock, nsock, hasEverConnected, decoder, nsub,
                 cmdId, wr, emitted, lastError>>
  /\ UNCHANGED <<wire, gwVars, outsideServer>>

TimeoutKeepEntry(s) ==
  /\ timerArmed[s]
  /\ LET t0 == [Core EXCEPT !.timerArmed[s] = FALSE]
     IN SetCore(Settle(t0, s, "timeout", 0, t0.pending))
  /\ UNCHANGED <<server, client, sock, nsock, hasEverConnected, decoder, nsub,
                 cmdId, wr, emitted, lastError>>
  /\ UNCHANGED <<wire, gwVars, outsideServer>>

Timeout(s) ==
  /\ timerArmed[s]
  /\ LET t0 == [Core EXCEPT !.timerArmed[s] = FALSE, !.pending[cmdId[s]] = 0]
     IN SetCore(Settle(t0, s, "timeout", 0, t0.pending))
  /\ UNCHANGED <<server, client, sock, nsock, hasEverConnected, decoder, nsub,
                 cmdId, wr, emitted, lastError>>
  /\ UNCHANGED <<wire, gwVars, outsideServer>>

\* The callback of client.write in sendCommand, without an error.
WriteOk(s) ==
  /\ wr[s] = "inflight"
  /\ wr' = [wr EXCEPT ![s] = "called"]
  /\ UNCHANGED <<server, client, sock, nsock, hasEverConnected, decoder, pending,
                 nsub, cmdId, timerArmed, settles, hb, emitted, lastError>>
  /\ UNCHANGED <<discarded, wire, gwVars, outsideServer>>

\* The callback of client.write in sendCommand, with an error.
WriteFail(s) ==
  /\ wr[s] = "inflight"
  /\ wr' = [wr EXCEPT ![s] = "called"]
  /\ LET t0 == [Core EXCEPT !.timerArmed[s] = FALSE, !.pending[cmdId[s]] = 0]
     IN SetCore(Settle(t0, s, "write error", 0, t0.pending))
  /\ UNCHANGED <<server, client, sock, nsock, hasEverConnected, decoder, nsub,
                 cmdId, emitted, lastError>>
  /\ UNCHANGED <<wire, gwVars, outsideServer>>

\* IpcServer.handleConnection for the next incoming connection: the guard, the
\* attachment, and the installation of the socket's handlers.
\* The listeners of 'client-connected': every tool call suspended in
\* waitForConnection has its timer cleared and goes on, in the same turn, to
\* build its command with a fresh id and to call sendCommand.
ResumeWaiters ==
  LET new == (nsub + 1)..(nsub + waiters) IN
    /\ nsub' = nsub + waiters
    /\ cmdId' = [x \in Subs |-> IF x \in new THEN x ELSE cmdId[x]]
    /\ timerArmed' = [x \in Subs |-> IF x \in new THEN TRUE ELSE timerArmed[x]]
    /\ pending' = [i \in Ids |-> IF i \in new THEN i ELSE pending[i]]
    /\ wr' = [x \in Subs |-> IF x \in new THEN "inflight" ELSE wr[x]]
    /\ waiters' = 0

\* onConnected of waitForConnection, the listener of 'client-connected', without
\* its clearTimeout.
onConnectedKeepsTimer(w) ==
  [w EXCEPT !.listener = FALSE, !.settles = Append(@, "resolve")]

\* onConnected of waitForConnection.  It is registered with once(), which
\* removes it before it runs.
onConnected(w) ==
  [w EXCEPT !.listener = FALSE, !.timer = "cleared", !.settles = Append(@, "resolve")]

\* emit('client-connected') as far as the listeners of waitForConnection go.
emitClientConnected(ws) ==
  [k \in DOMAIN ws |-> IF ws[k].listener THEN onConnected(ws[k]) ELSE ws[k]]

HandleConnectionNoGuard(s) ==
  /\ server = "listening"
  /\ s = nsock + 1
  /\ nsock' = s
  /\ client' = s
  /\ sock' = [sock EXCEPT ![s] = "open"]
  /\ hasEverConnected' = TRUE
  /\ decoder' = <<>>
  /\ hb' = startHeartbeat(hb)
  /\ emitted' = [emitted EXCEPT !.connected = @ + 1]
  /\ ResumeWaiters
  /\ waits' = emitClientConnected(waits)
  /\ UNCHANGED <<server, settles, lastError, toolError, gwPhase>>
  /\ UNCHANGED <<discarded, wire, decVars, relayVars, relayInVars, bgVars, contentVars, call, nav, wf>>

HandleConnection(s) ==
  /\ server = "listening"
  /\ s = nsock + 1
  /\ nsock' = s
  /\ IF client # 0
     THEN /\ sock' = [sock EXCEPT ![s] = "rejected"]
          /\ UNCHANGED <<client, hasEverConnected, decoder, hb, emitted>>
          /\ UNCHANGED <<pending, nsub, cmdId, timerArmed, wr, waiters, waits>>
     ELSE /\ client' = s
          /\ sock' = [sock EXCEPT ![s] = "open"]
          /\ hasEverConnected' = TRUE
          /\ decoder' = <<>>
          /\ hb' = startHeartbeat(hb)
          /\ emitted' = [emitted EXCEPT !.connected = @ + 1]
          /\ ResumeWaiters
          /\ waits' = emitClientConnected(waits)
  /\ UNCHANGED <<server, settles, lastError, toolError, gwPhase>>
  /\ UNCHANGED <<discarded, wire, decVars, relayVars, relayInVars, bgVars, contentVars, call, nav, wf>>


SocketDataKeepsSocket(s, data) ==
  /\ sock[s] = "open"
  /\ LET r == Push(decoder, data) IN
       /\ decoder' = r.buffer
       /\ IF r.error # "none"
          THEN /\ lastError' = r.error
               /\ UNCHANGED <<sock, pending, timerArmed, settles, hb, discarded>>
          ELSE /\ SetCore(HandleMessages(Core, r.messages))
               /\ UNCHANGED <<lastError, sock>>
  /\ UNCHANGED <<server, client, nsock, hasEverConnected, nsub, cmdId, wr, emitted>>
  /\ UNCHANGED <<gwVars, outsideServer>>

\* socket.on('data'): decode, then dispatch every decoded message; a decoder
\* error is emitted and the socket destroyed.  A destroyed socket delivers no data.
SocketData(s, data) ==
  /\ sock[s] = "open"
  /\ LET r == Push(decoder, data) IN
       /\ decoder' = r.buffer
       /\ IF r.error # "none"
          THEN /\ lastError' = r.error
               /\ sock' = [sock EXCEPT ![s] = "destroyed"]
               /\ UNCHANGED <<pending, timerArmed, settles, hb, discarded>>
          ELSE /\ SetCore(HandleMessages(Core, r.messages))
               /\ UNCHANGED <<lastError, sock>>
  /\ UNCHANGED <<server, client, nsock, hasEverConnected, nsub, cmdId, wr, emitted>>
  /\ UNCHANGED <<gwVars, outsideServer>>

\* The close handler without its decoder.reset().
SocketCloseKeepsDecoder(s) ==
  /\ sock[s] \in {"open", "destroyed"}
  /\ sock' = [sock EXCEPT ![s] = "closed"]
  /\ client' = 0
  /\ UNCHANGED decoder
  /\ SetCore(RejectAll([Core EXCEPT !.hb = stopHeartbeat(hb)], "disconnect"))
  /\ emitted' = [emitted EXCEPT !.disconnected = @ + 1]
  /\ wire' = <<>>
  /\ UNCHANGED <<server, nsock, hasEverConnected, nsub, cmdId, wr, lastError>>
  /\ UNCHANGED <<gwVars, outsideServer>>

\* socket.on('close'): the disconnect path.
SocketClose(s) ==
  /\ sock[s] \in {"open", "destroyed"}
  /\ sock' = [sock EXCEPT ![s] = "closed"]
  /\ client' = 0
  /\ decoder' = <<>>
  /\ SetCore(RejectAll([Core EXCEPT !.hb = stopHeartbeat(hb)], "disconnect"))
  /\ emitted' = [emitted EXCEPT !.disconnected = @ + 1]
  /\ wire' = <<>>
  /\ UNCHANGED <<server, nsock, hasEverConnected, nsub, cmdId, wr, lastError>>
  /\ UNCHANGED <<gwVars, outsideServer>>

\* The setInterval callback of startHeartbeat, past its early return.
HeartbeatTick ==
  /\ hb.interval
  /\ client # 0
  /\ ~hb.awaitingPong
  /\ hb' = [hb EXCEPT !.awaitingPong = TRUE, !.pongTimeout = "armed"]
  /\ UNCHANGED <<server, client, sock, nsock, hasEverConnected, decoder, pending,
                 nsub, cmdId, timerArmed, wr, settles, emitted, lastError>>
  /\ UNCHANGED <<discarded, wire, gwVars, outsideServer>>

PongTimeoutNoDestroy ==
  /\ hb.pongTimeout = "armed"
  /\ hb' = [hb EXCEPT !.awaitingPong = FALSE, !.pongTimeout = "fired"]
  /\ lastError' = IF client # 0 THEN "Heartbeat timeout" ELSE lastError
  /\ UNCHANGED <<server, client, sock, nsock, hasEverConnected, decoder, pending,
                 nsub, cmdId, timerArmed, wr, settles, emitted>>
  /\ UNCHANGED <<discarded, wire, gwVars, outsideServer>>

\* The pong timer's callback: the client is considered dead.
PongTimeout ==
  /\ hb.pongTimeout = "armed"
  /\ hb' = [hb EXCEPT !.awaitingPong = FALSE, !.pongTimeout = "fired"]
  /\ IF client # 0
     THEN /\ lastError' = "Heartbeat timeout"
          /\ sock' = [sock EXCEPT ![client] = "destroyed"]
     ELSE UNCHANGED <<lastError, sock>>
  /\ UNCHANGED <<server, client, nsock, hasEverConnected, decoder, pending,
                 nsub, cmdId, timerArmed, wr, settles, emitted>>
  /\ UNCHANGED <<discarded, wire, gwVars, outsideServer>>

\* IpcServer.close
Close ==
  /\ server = "listening"
  /\ server' = "closed"
  /\ SetCore(RejectAll([Core EXCEPT !.hb = stopHeartbeat(hb)], "closing"))
  /\ client' = 0
  /\ sock' = IF client # 0 THEN [sock EXCEPT ![client] = "destroyed"] ELSE sock
  /\ decoder' = <<>>
  /\ UNCHANGED <<nsock, hasEverConnected, nsub, cmdId, wr, emitted, lastError>>
  /\ UNCHANGED <<wire, outsideServer>>

\* ------------------------------------------------------------ MCP gateway

\* crypto.randomUUID(): an id no earlier command carries.
randomUUID == nsub + 1

\* The tools/call handler of main, for a connected broker: a fresh correlation
\* id, then sendCommand.
CallTool == SendCommand(randomUUID)

\* shutdown() of main up to its await: ipcServer.close(), then mcpServer.close()
\* is called.
Shutdown ==
  /\ gwPhase = "running"
  /\ Close
  /\ gwPhase' = "closing"
  /\ UNCHANGED <<waiters, toolError>>

\* shutdown() that exits without awaiting mcpServer.close().
McpCloseSettledEarly ==
  /\ gwPhase \in {"running", "closing"}
  /\ gwPhase' = "exited"
  /\ UNCHANGED <<brokerVars, waiters, toolError, outsideServer>>

\* mcpServer.close() settles: shutdown() goes on to process.exit(0).
McpCloseSettled ==
  /\ gwPhase = "closing"
  /\ gwPhase' = "exited"
  /\ UNCHANGED <<brokerVars, waiters, toolError, outsideServer>>

\* The tools/call handler with no client attached: the call is suspended in
\* waitForConnection(CONNECTION_WAIT_MS).
CallToolWait ==
  /\ client = 0
  /\ nsub + waiters < MaxSubs
  /\ waiters' = waiters + 1
  /\ UNCHANGED <<brokerVars, toolError, gwPhase, outsideServer>>

\* A wait that answers "not connected" whatever the history.
WaitTimeoutOneMessage ==
  /\ waiters > 0
  /\ waiters' = waiters - 1
  /\ toolError' = "not connected"
  /\ UNCHANGED <<brokerVars, gwPhase, outsideServer>>

\* The timer of waitForConnection fires: the listener is removed, the wait
\* rejects, and the handler returns the error that hasEverConnected selects.
WaitTimeout ==
  /\ waiters > 0
  /\ waiters' = waiters - 1
  /\ toolError' = IF hasEverConnected THEN "disconnected" ELSE "not connected"
  /\ UNCHANGED <<brokerVars, gwPhase, outsideServer>>


\* ------------------------------------------------ what a client may send

ResponseFrames == {encodeFrame([type |-> "response", id |-> i]) : i \in Ids}
PongFrame == encodeFrame([type |-> "pong", id |-> 0])
PingFrame == encodeFrame([type |-> "ping", id |-> 0])
OtherFrame == encodeFrame([type |-> "other", id |-> 0])
BadJsonFrame == <<0, 0, 0, 1, 9>>
OversizeHeader == <<5, 0, 0, 0>>

Frames == ResponseFrames \cup {PongFrame, PingFrame, OtherFrame}
Pieces == Frames \cup {BadJsonFrame, OversizeHeader}

\* What the peer writes under byte-level delivery: responses and a header
\* above the cap.
WirePieces == ResponseFrames \cup {OversizeHeader}

\* A 'data' event that carries exactly one piece.
DataPiece(s, data) == SocketData(s, data) /\ wire = <<>> /\ UNCHANGED wire

InitOthers ==
  /\ stream = <<>> /\ posA = 0 /\ posB = 0
  /\ bufA = <<>> /\ bufB = <<>> /\ outA = <<>> /\ outB = <<>>
  /\ relayCmds = <<>>
  /\ wstate = [k \in 1..MaxCmds |-> "none"]
  /\ written = [k \in 1..MaxCmds |-> 0]
  /\ stdout = <<>>
  /\ shuttingDown = FALSE
  /\ ipcOpen = TRUE
  /\ exitTimer = FALSE
  /\ exited = FALSE
  /\ stdinOpen = TRUE
  /\ stdinBuf = <<>>
  /\ nchunks = 0
  /\ forwarded = <<>>
  /\ healthArmed = TRUE
  /\ nshutdown = 0
  /\ waiters = 0
  /\ toolError = "none"
  /\ gwPhase = "running"
  /\ InitExtension

Init == InitBroker /\ InitOthers

Next ==
  \/ CallTool
  \/ \E s \in Subs : Timeout(s)
  \/ \E s \in Subs : WriteOk(s)
  \/ \E s \in Subs : WriteFail(s)
  \/ \E s \in Socks : HandleConnection(s)
  \/ \E s \in Socks, data \in Pieces : DataPiece(s, data)
  \/ \E s \in Socks : SocketClose(s)
  \/ HeartbeatTick
  \/ PongTimeout
  \/ Shutdown

Spec == Init /\ [][Next]_vars


\* The attached peer writes one more piece to its end of the socket.
ClientSend(piece) ==
  /\ client # 0
  /\ sock[client] = "open"
  /\ Len(wire) + Len(piece) <= MaxWire
  /\ wire' = wire \o piece
  /\ UNCHANGED <<server, client, sock, nsock, hasEverConnected, decoder, pending,
                 nsub, cmdId, timerArmed, wr, settles, hb, emitted, lastError,
                 discarded>>
  /\ UNCHANGED <<gwVars, outsideServer>>

\* A 'data' event that carries the first k bytes in flight: the stream reaches
\* the handler cut at any byte.
Deliver(k) ==
  /\ client # 0
  /\ k \in 1..Len(wire)
  /\ SocketData(client, SubSeq(wire, 1, k))
  /\ wire' = SubSeq(wire, k + 1, Len(wire))

\* The broker's socket handlers under byte-level delivery.
NextWire ==
  \/ CallTool
  \/ \E s \in Socks : HandleConnection(s)
  \/ \E piece \in WirePieces : ClientSend(piece)
  \/ \E k \in 1..MaxWire : Deliver(k)
  \/ \E s \in Socks : SocketClose(s)

SpecWire == Init /\ [][NextWire]_vars

\* 'close' is emitted for every socket that was destroyed.
DestroyedClose(s) == sock[s] = "destroyed" /\ SocketClose(s)

\* The broker under responses, timer expiry, heartbeats and client disconnect:
\* every write callback is still outstanding and the gateway does not shut down.
NextEvents ==
  \/ CallTool
  \/ \E s \in Subs : Timeout(s)
  \/ \E s \in Socks : HandleConnection(s)
  \/ \E s \in Socks, data \in Pieces : DataPiece(s, data)
  \/ \E s \in Socks : SocketClose(s)
  \/ HeartbeatTick
  \/ PongTimeout

\* An armed timer fires; a destroyed socket emits 'close'.
FairSpec ==
  /\ Init
  /\ [][NextEvents]_vars
  /\ \A s \in Subs : WF_vars(Timeout(s))
  /\ \A s \in Socks : WF_vars(DestroyedClose(s))

\* The broker driven through its public sendCommand with ids the caller picks.
NextCallerIds ==
  \/ \E id \in Ids : SendCommand(id)
  \/ \E s \in Subs : Timeout(s)
  \/ \E s \in Subs : WriteOk(s)
  \/ \E s \in Subs : WriteFail(s)
  \/ \E s \in Socks : HandleConnection(s)
  \/ \E s \in Socks, data \in Pieces : DataPiece(s, data)
  \/ \E s \in Socks : SocketClose(s)
  \/ HeartbeatTick
  \/ PongTimeout
  \/ Close /\ UNCHANGED gwVars

SpecCallerIds == Init /\ [][NextCallerIds]_vars

\* The gateway process: tool calls with and without a client, the broker's
\* events, and shutdown on a signal.  Nothing runs after process.exit.
NextGateway ==
  /\ gwPhase # "exited"
  /\ \/ CallTool
     \/ CallToolWait
     \/ WaitTimeout
     \/ \E s \in Subs : Timeout(s)
     \/ \E s \in Socks : HandleConnection(s)
     \/ \E s \in Socks, data \in ResponseFrames : DataPiece(s, data)
     \/ \E s \in Socks : SocketClose(s)
     \/ Shutdown
     \/ McpCloseSettled

SpecGateway == Init /\ [][NextGateway]_vars

\* IpcServer.waitForConnection(timeoutMs): with a client attached it returns a
\* resolved promise; otherwise it arms the timer and registers onConnected.
waitForConnection ==
  /\ Len(waits) < MaxWaits
  /\ waits' = Append(waits,
       IF client # 0
       THEN [listener |-> FALSE, timer |-> "none", settles |-> <<"resolve">>]
       ELSE [listener |-> TRUE, timer |-> "armed", settles |-> <<>>])
  /\ UNCHANGED <<brokerVars, gwVars, decVars, relayVars, relayInVars, bgVars,
                 contentVars, call, nav, wf>>

\* The setTimeout callback of the k-th waitForConnection call: it removes the
\* listener and rejects.
WaitTimerFires(k) ==
  /\ k \in DOMAIN waits
  /\ waits[k].timer = "armed"
  /\ waits' = [waits EXCEPT ![k] = [@ EXCEPT !.timer = "fired", !.listener = FALSE,
                                              !.settles = Append(@, "reject")]]
  /\ UNCHANGED <<brokerVars, gwVars, decVars, relayVars, relayInVars, bgVars,
                 contentVars, call, nav, wf>>

\* Callers of waitForConnection while clients come and go.
NextWaits ==
  \/ waitForConnection
  \/ \E k \in 1..MaxWaits : WaitTimerFires(k)
  \/ \E s \in Socks : HandleConnection(s)
  \/ \E s \in Socks : SocketClose(s)

SpecWaits == Init /\ [][NextWaits]_vars

\* An armed timer fires in the end, unless it is cleared first.
FairWaits == SpecWaits /\ \A k \in 1..MaxWaits : WF_vars(WaitTimerFires(k))

\* ------------------------------------------------- frame decoder harness

\* One decoder fed the stream cut into chunks of any length, as in
\*   for (const chunk of chunks) out.push(...decoder.push(chunk))
\* where a push that throws returns nothing.
PushA(k) ==
  /\ k \in 1..(Len(stream) - posA)
  /\ LET r == Push(bufA, SubSeq(stream, posA + 1, posA + k)) IN
       /\ bufA' = r.buffer
       /\ outA' = outA \o r.messages
  /\ posA' = posA + k
  /\ UNCHANGED <<stream, posB, bufB, outB>>
  /\ UNCHANGED outsideDecoder

PushB(k) ==
  /\ k \in 1..(Len(stream) - posB)
  /\ LET r == Push(bufB, SubSeq(stream, posB + 1, posB + k)) IN
       /\ bufB' = r.buffer
       /\ outB' = outB \o r.messages
  /\ posB' = posB + k
  /\ UNCHANGED <<stream, posA, bufA, outA>>
  /\ UNCHANGED outsideDecoder

RECURSIVE Concat(_)
Concat(ss) == IF ss = <<>> THEN <<>> ELSE Head(ss) \o Concat(Tail(ss))

\* Byte streams: up to MaxPieces pieces, each a frame, a frame whose payload
\* does not parse, an oversized header or a truncated header.
StreamPieces == ResponseFrames \cup {PongFrame, BadJsonFrame, OversizeHeader, <<0, 0>>}

Streams ==
  {Concat(ss) : ss \in UNION {[1..n -> StreamPieces] : n \in 0..MaxPieces}}

InitDecoder ==
  /\ InitBroker
  /\ stream \in Streams /\ posA = 0 /\ posB = 0
  /\ bufA = <<>> /\ bufB = <<>> /\ outA = <<>> /\ outB = <<>>
  /\ relayCmds = <<>>
  /\ wstate = [k \in 1..MaxCmds |-> "none"]
  /\ written = [k \in 1..MaxCmds |-> 0]
  /\ stdout = <<>>
  /\ shuttingDown = FALSE
  /\ ipcOpen = TRUE
  /\ exitTimer = FALSE
  /\ exited = FALSE
  /\ stdinOpen = TRUE
  /\ stdinBuf = <<>>
  /\ nchunks = 0
  /\ forwarded = <<>>
  /\ healthArmed = TRUE
  /\ nshutdown = 0
  /\ waiters = 0
  /\ toolError = "none"
  /\ gwPhase = "running"
  /\ InitExtension

NextDecoder ==
  \/ \E k \in 1..(MaxPieces * 6) : PushA(k)
  \/ \E k \in 1..(MaxPieces * 6) : PushB(k)

SpecDecoder == InitDecoder /\ [][NextDecoder]_vars

\* ------------------------------------------------ native-messaging relay

\* Buffer.writeUInt32LE for the lengths the model uses (< 256).
UInt32LE(n) == <<n, 0, 0, 0>>

\* The frame writeNativeMessage builds for a command.
nativeFrame(c) ==
  UInt32LE(Len(Stringify([type |-> "command", id |-> c])))
    \o Stringify([type |-> "command", id |-> c])

Settled(w) == w \in {"done", "failed"}

\* shutdown(reason) of the relay's main
shutdownNoGuard ==
  /\ shuttingDown' = TRUE /\ ipcOpen' = FALSE /\ exitTimer' = TRUE
  /\ nshutdown' = nshutdown + 1

shutdown ==
  IF shuttingDown
  THEN UNCHANGED <<shuttingDown, ipcOpen, exitTimer, nshutdown>>
  ELSE /\ shuttingDown' = TRUE /\ ipcOpen' = FALSE /\ exitTimer' = TRUE
       /\ nshutdown' = nshutdown + 1

\* onCommand without the chain: writeNativeMessage is called at once.
onCommandWriteNow(c) ==
  /\ ~exited /\ ipcOpen
  /\ Len(relayCmds) < MaxCmds
  /\ relayCmds' = Append(relayCmds, c)
  /\ wstate' = [wstate EXCEPT ![Len(relayCmds) + 1] = "writing"]
  /\ UNCHANGED <<written, stdout, shuttingDown, ipcOpen, exitTimer, exited>>
  /\ UNCHANGED <<outsideRelay, relayInVars>>

\* onCommand: the command's write is chained behind writeChain; its link runs
\* in the same turn when every earlier link has settled.
onCommand(c) ==
  /\ ~exited /\ ipcOpen
  /\ Len(relayCmds) < MaxCmds
  /\ relayCmds' = Append(relayCmds, c)
  /\ wstate' = [wstate EXCEPT ![Len(relayCmds) + 1] =
                  IF \A j \in 1..Len(relayCmds) : Settled(wstate[j])
                  THEN "writing" ELSE "queued"]
  /\ UNCHANGED <<written, stdout, shuttingDown, ipcOpen, exitTimer, exited>>
  /\ UNCHANGED <<outsideRelay, relayInVars>>

\* Standard output accepts the next byte of a frame handed to process.stdout.write.
Drain(k) ==
  /\ ~exited
  /\ wstate[k] = "writing"
  /\ written[k] < Len(nativeFrame(relayCmds[k]))
  /\ stdout' = Append(stdout, nativeFrame(relayCmds[k])[written[k] + 1])
  /\ written' = [written EXCEPT ![k] = @ + 1]
  /\ UNCHANGED <<relayCmds, wstate, shuttingDown, ipcOpen, exitTimer, exited>>
  /\ UNCHANGED <<outsideRelay, relayInVars>>

\* The link after k runs once k's promise has settled.
AfterWrite(k, result) ==
  [j \in 1..MaxCmds |->
     IF j = k THEN result
     ELSE IF j = k + 1 /\ wstate[j] = "queued" THEN "writing"
     ELSE wstate[j]]

\* The callback of process.stdout.write without an error.
WriteDone(k) ==
  /\ ~exited
  /\ wstate[k] = "writing"
  /\ written[k] = Len(nativeFrame(relayCmds[k]))
  /\ wstate' = AfterWrite(k, "done")
  /\ UNCHANGED <<relayCmds, written, stdout, shuttingDown, ipcOpen, exitTimer, exited>>
  /\ UNCHANGED <<outsideRelay, relayInVars>>

\* The callback of process.stdout.write with an error: the chain's catch logs
\* and shuts down, and the chain goes on.
WriteError(k) ==
  /\ ~exited
  /\ wstate[k] = "writing"
  /\ wstate' = AfterWrite(k, "failed")
  /\ shutdown
  /\ UNCHANGED <<relayCmds, written, stdout, exited>>
  /\ UNCHANGED <<stdinOpen, stdinBuf, nchunks, forwarded, healthArmed>>
  /\ UNCHANGED outsideRelay

\* setTimeout(() => process.exit(0), 50)
ProcessExit ==
  /\ exitTimer
  /\ exitTimer' = FALSE
  /\ exited' = TRUE
  /\ UNCHANGED <<relayCmds, wstate, written, stdout, shuttingDown, ipcOpen>>
  /\ UNCHANGED <<outsideRelay, relayInVars>>

\* Buffer.readUInt32LE(0)
ReadUInt32LE(buf) == buf[1] + 256 * buf[2] + 65536 * buf[3] + 16777216 * buf[4]

NATIVE_MAX == 1024 * 1024

\* The while loop of readNativeMessages together with the body of main's
\* for-await loop, which runs for each message the generator yields: a payload
\* that does not parse is logged and skipped, a message without id is skipped,
\* any other is handed to ipc.sendResponse (which throws, and is caught, when
\* the socket is gone).  threw: the generator threw on a length above 1 MB.
RECURSIVE NativeLoop(_, _)
NativeLoop(buf, fwd) ==
  IF Len(buf) < 4 THEN [buffer |-> buf, forwarded |-> fwd, threw |-> FALSE]
  ELSE IF ReadUInt32LE(buf) > NATIVE_MAX
    THEN [buffer |-> buf, forwarded |-> fwd, threw |-> TRUE]
  ELSE IF Len(buf) < 4 + ReadUInt32LE(buf)
    THEN [buffer |-> buf, forwarded |-> fwd, threw |-> FALSE]
  ELSE LET n == ReadUInt32LE(buf)
           m == JsonParse(SubSeq(buf, 5, 4 + n))
           rest == SubSeq(buf, 5 + n, Len(buf))
       IN IF m.type = "SyntaxError" \/ m.id = 0 THEN NativeLoop(rest, fwd)
          ELSE NativeLoop(rest, IF ipcOpen THEN Append(fwd, m.id) ELSE fwd)

\* The end of main: clearInterval(healthCheckInterval); shutdown('stdin closed').
AfterStdinLoop ==
  /\ stdinOpen' = FALSE
  /\ healthArmed' = FALSE
  /\ shutdown

\* Standard input delivers a chunk.  When the generator throws, the catch around
\* the loop logs and main runs on to its end.
StdinData(chunk) ==
  /\ ~exited /\ stdinOpen
  /\ nchunks < MaxChunks
  /\ nchunks' = nchunks + 1
  /\ LET r == NativeLoop(stdinBuf \o chunk, forwarded) IN
       /\ stdinBuf' = r.buffer
       /\ forwarded' = r.forwarded
       /\ IF r.threw THEN AfterStdinLoop
          ELSE UNCHANGED <<stdinOpen, healthArmed, shuttingDown, ipcOpen,
                           exitTimer, nshutdown>>
  /\ UNCHANGED <<relayCmds, wstate, written, stdout, exited>>
  /\ UNCHANGED outsideRelay

\* Standard input ends: the for-await loop finishes.
StdinEnd ==
  /\ ~exited /\ stdinOpen
  /\ AfterStdinLoop
  /\ UNCHANGED <<stdinBuf, nchunks, forwarded>>
  /\ UNCHANGED <<relayCmds, wstate, written, stdout, exited>>
  /\ UNCHANGED outsideRelay

\* A health check that reconnects in place of shutting down.
HealthCheckReconnects ==
  /\ ~exited /\ healthArmed
  /\ ipcOpen' = TRUE
  /\ UNCHANGED <<healthArmed, shuttingDown, exitTimer, nshutdown>>
  /\ UNCHANGED <<stdinOpen, stdinBuf, nchunks, forwarded>>
  /\ UNCHANGED <<relayCmds, wstate, written, stdout, exited>>
  /\ UNCHANGED outsideRelay

\* The callback of healthCheckInterval.
HealthCheck ==
  /\ ~exited /\ healthArmed
  /\ IF ~ipcOpen
     THEN healthArmed' = FALSE /\ shutdown
     ELSE UNCHANGED <<healthArmed, shuttingDown, ipcOpen, exitTimer, nshutdown>>
  /\ UNCHANGED <<stdinOpen, stdinBuf, nchunks, forwarded>>
  /\ UNCHANGED <<relayCmds, wstate, written, stdout, exited>>
  /\ UNCHANGED outsideRelay

\* The relay's socket to the broker is closed by the peer or by an error.
IpcClosed ==
  /\ ~exited /\ ipcOpen
  /\ ipcOpen' = FALSE
  /\ UNCHANGED <<relayCmds, wstate, written, stdout, shuttingDown, exitTimer, exited>>
  /\ UNCHANGED <<outsideRelay, relayInVars>>

\* IpcClient's 'data' handler for a frame that is not a command: a push that
\* throws destroys the socket; a ping is answered, anything else is ignored.
IpcClientData(piece) ==
  /\ ~exited /\ ipcOpen
  /\ ipcOpen' = (Push(<<>>, piece).error = "none")
  /\ UNCHANGED <<relayCmds, wstate, written, stdout, shuttingDown, exitTimer, exited>>
  /\ UNCHANGED <<outsideRelay, relayInVars>>

\* What the browser may write to the relay's standard input.
NativeResponse(id) == UInt32LE(2) \o <<1, id>>

NativePieces ==
  {NativeResponse(id) : id \in 1..MaxCmds}
    \cup {UInt32LE(1) \o <<9>>,      \* a payload that does not parse
          UInt32LE(1) \o <<0>>,      \* a message without id
          <<0, 0, 0, 1>>,            \* a declared length of 16 MB
          <<2, 0, 0>>, <<0, 1, 1>>}  \* a response cut in two

StdinChunks ==
  {Concat(ss) : ss \in UNION {[1..n -> NativePieces] : n \in 1..2}}

NextRelay ==
  \/ \E c \in 1..MaxCmds : onCommand(c)
  \/ \E k \in 1..MaxCmds : Drain(k)
  \/ \E k \in 1..MaxCmds : WriteDone(k)
  \/ \E k \in 1..MaxCmds : WriteError(k)
  \/ \E piece \in {PingFrame, BadJsonFrame, OversizeHeader} : IpcClientData(piece)
  \/ IpcClosed
  \/ HealthCheck
  \/ StdinEnd
  \/ ProcessExit

SpecRelay == Init /\ [][NextRelay]_vars

\* The health check interval fires while it is armed, the exit timer fires.
FairRelay ==
  /\ Init
  /\ [][NextRelay]_vars
  /\ WF_vars(HealthCheck)
  /\ WF_vars(ProcessExit)

\* The relay's standard-input side.
NextStdin ==
  \/ \E chunk \in StdinChunks : StdinData(chunk)
  \/ StdinEnd
  \/ IpcClosed
  \/ HealthCheck
  \/ ProcessExit

SpecStdin == Init /\ [][NextStdin]_vars

\* ------------------------------------------------- extension background

MAX_RECONNECT_RETRIES == 5
BASE_RECONNECT_DELAY_MS == 1000

CONTENT_SCRIPT_ACTIONS ==
  {"snapshot", "click", "type", "press_key", "hover", "fill_form",
   "select_option", "evaluate", "wait_for"}

\* The switch of handleCommand.
TabLevelActions ==
  {"navigate", "navigate_back", "screenshot", "tabs", "close", "resize", "save_pdf"}

\* ActionType of the shared types: the action catalog.
ActionType ==
  {"navigate", "navigate_back", "snapshot", "screenshot", "click", "type",
   "press_key", "hover", "fill_form", "select_option", "evaluate", "wait_for",
   "tabs", "close", "resize", "get_cookies", "get_bookmarks", "get_history",
   "network_requests", "save_pdf", "page_content"}

\* Where handleCommand takes a command, by its action.
Route(action) ==
  IF action \in CONTENT_SCRIPT_ACTIONS THEN "content"
  ELSE IF action \in TabLevelActions THEN "background"
  ELSE "unknown"

\* The runtime validation of the onMessage listener: an object whose id and
\* action are strings.
WellFormed(m) == m.obj /\ m.idT = "string" /\ m.actT = "string"

\* sendResponse that gives every response an error member.
PostAlwaysError(rec, success, result, error) ==
  [rec EXCEPT !.posts = Append(@, [id |-> rec.id, success |-> success,
                                  result |-> result,
                                  error |-> IF error = "undefined" THEN "" ELSE error,
                                  delivered |-> rec.portOpen])]

\* sendResponse: the response has a result member and an error member only for
\* an argument that is not undefined; one nmPort.postMessage, which throws
\* (caught and logged) when the port the listener captured has disconnected
\* since.
Post(rec, success, result, error) ==
  [rec EXCEPT !.posts = Append(@, [id |-> rec.id, success |-> success,
                                  result |-> result, error |-> error,
                                  delivered |-> rec.portOpen])]

\* scheduleReconnect: gives up at the cap and arms no timer, otherwise arms
\* setTimeout(connect, delay). It runs only while no timer is pending (from the
\* disconnect of an open port, or from the connect call a timer has just run).
scheduleReconnect(l) ==
  IF reconnectAttempts >= MAX_RECONNECT_RETRIES
  THEN /\ reconnectAttempts' = reconnectAttempts
       /\ reconnectTimer' = 0
       /\ live' = l
  ELSE /\ reconnectTimer' = BASE_RECONNECT_DELAY_MS * 2 ^ reconnectAttempts
       /\ reconnectAttempts' = reconnectAttempts + 1
       /\ live' = [l EXCEPT !.timers = @ + 1]

\* connect with the counter left alone when the port opens.
connectKeepsCounter(opened) ==
  /\ reconnectTimer # 0
  /\ reconnects < MaxReconnects
  /\ reconnects' = reconnects + 1
  /\ IF opened
     THEN /\ port' = "open"
          /\ reconnectAttempts' = reconnectAttempts
          /\ reconnectTimer' = 0
          /\ live' = [ports |-> live.ports + 1, timers |-> live.timers - 1]
     ELSE /\ scheduleReconnect([live EXCEPT !.timers = @ - 1])
          /\ UNCHANGED port
  /\ UNCHANGED <<bg, outsideBackground>>

\* connect whose catch block lacks its return: after a connectNative that
\* throws it goes on as if a port had been returned.
connectFallsThrough(opened) ==
  /\ reconnectTimer # 0
  /\ reconnects < MaxReconnects
  /\ reconnects' = reconnects + 1
  /\ port' = "open"
  /\ IF opened
     THEN /\ reconnectAttempts' = 0
          /\ reconnectTimer' = 0
          /\ live' = [ports |-> live.ports + 1, timers |-> live.timers - 1]
     ELSE scheduleReconnect([ports |-> live.ports + 1, timers |-> live.timers - 1])
  /\ UNCHANGED <<bg, outsideBackground>>

\* connect, run by the reconnect timer: connectNative either throws (the
\* catch calls scheduleReconnect) or returns a port, after which the listeners
\* are attached and reconnectAttempts is set to 0.
connect(opened) ==
  /\ reconnectTimer # 0
  /\ reconnects < MaxReconnects
  /\ reconnects' = reconnects + 1
  /\ IF opened
     THEN /\ port' = "open"
          /\ reconnectAttempts' = 0
          /\ reconnectTimer' = 0
          /\ live' = [ports |-> live.ports + 1, timers |-> live.timers - 1]
     ELSE /\ scheduleReconnect([live EXCEPT !.timers = @ - 1])
          /\ UNCHANGED port
  /\ UNCHANGED <<bg, outsideBackground>>

\* The onDisconnect listener of the current port. The commands still being
\* handled keep the port their listener captured, which is now disconnected.
onDisconnect ==
  /\ port = "open"
  /\ port' = "null"
  /\ scheduleReconnect([live EXCEPT !.ports = @ - 1])
  /\ bg' = [k \in 1..Len(bg) |->
             IF bg[k].phase = "running" THEN [bg[k] EXCEPT !.portOpen = FALSE]
             ELSE bg[k]]
  /\ UNCHANGED <<reconnects, outsideBackground>>

\* handleCommand up to its first await: an action outside both tables is
\* answered at once, any other waits for the content script or the handler.
handleCommand(m) ==
  LET rec == [wf |-> TRUE, id |-> m.id, action |-> m.action,
              route |-> Route(m.action), phase |-> "running",
              portOpen |-> TRUE, posts |-> <<>>]
  IN IF Route(m.action) = "unknown"
     THEN [Post(rec, FALSE, "undefined", "Unknown action") EXCEPT !.phase = "done"]
     ELSE rec

\* The onMessage listener of the current port: resets the counter, drops an
\* ill-formed message, hands a well-formed one to handleCommand.
onMessage(m) ==
  /\ port = "open"
  /\ Len(bg) < MaxBg
  /\ reconnectAttempts' = 0
  /\ reconnects' = 0
  /\ bg' = Append(bg,
             IF WellFormed(m)
             THEN handleCommand(m)
             ELSE [wf |-> FALSE, id |-> m.id, action |-> m.action,
                   route |-> "none", phase |-> "dropped", portOpen |-> TRUE,
                   posts |-> <<>>])
  /\ UNCHANGED <<port, reconnectTimer, live, outsideBackground>>

\* makeResponse of the content script: result and error are members of the
\* response only when the argument is not undefined.
makeResponse(id, success, result, error) ==
  [id |-> id, success |-> success, result |-> result, error |-> error]

\* processRequest of the content script, which builds the response that
\* forwardToContentScript returns. h is what the handler of the action does:
\* "returns", "throws", and for evaluate also "not a function" and "timeout",
\* which reject the promise of handleEvaluate as a throw in the page does. The
\* promise of handleType and of handleWaitFor is awaited, that of handleEvaluate
\* is not: it becomes the result as it is.
processRequest(id, action, h) ==
  IF action \notin {"snapshot", "click", "type", "press_key", "hover", "fill_form",
                    "select_option", "evaluate", "wait_for"}
  THEN makeResponse(id, FALSE, "undefined", "not implemented")
  ELSE IF action = "evaluate" THEN makeResponse(id, TRUE, "promise", "undefined")
  ELSE IF h # "returns" THEN makeResponse(id, FALSE, "undefined", "thrown")
  ELSE makeResponse(id, TRUE, IF action \in {"click", "type", "press_key", "hover"}
                              THEN "{}" ELSE "value", "undefined")

\* The rest of handleCommand once its await settles. outcome is "ok" (the
\* handler's result, or the response of the content script whose handler
\* returned), "fail" (the response of the content script whose handler threw),
\* "unavailable" (the error response forwardToContentScript builds itself) or
\* "throw" (the catch block).
handleCommandRest(rec, outcome) ==
  IF outcome = "throw" THEN Post(rec, FALSE, "undefined", "thrown")
  ELSE IF outcome = "unavailable"
       THEN Post(rec, FALSE, "undefined", "Content script unavailable")
  ELSE IF rec.route = "content"
       THEN LET r == processRequest(rec.id, rec.action,
                                    IF outcome = "ok" THEN "returns" ELSE "throws")
            IN Post(rec, r.success, r.result, r.error)
       ELSE Post(rec, TRUE, "result", "undefined")

\* The catch block answering a command whose answer was already posted.
handleCommandDoneCatchAfterPost(k, outcome) ==
  /\ k \in 1..Len(bg)
  /\ bg[k].phase = "running"
  /\ outcome \in {"fail", "unavailable"} => bg[k].route = "content"
  /\ bg' = [bg EXCEPT ![k] =
              [(IF outcome = "throw"
                THEN Post(Post(bg[k], TRUE, "result", "undefined"),
                          FALSE, "undefined", "thrown")
                ELSE handleCommandRest(bg[k], outcome)) EXCEPT !.phase = "done"]]
  /\ UNCHANGED <<port, reconnectAttempts, reconnectTimer, reconnects, live,
                 outsideBackground>>

handleCommandDone(k, outcome) ==
  /\ k \in 1..Len(bg)
  /\ bg[k].phase = "running"
  /\ outcome \in {"fail", "unavailable"} => bg[k].route = "content"
  /\ bg' = [bg EXCEPT ![k] =
              [handleCommandRest(bg[k], outcome) EXCEPT !.phase = "done"]]
  /\ UNCHANGED <<port, reconnectAttempts, reconnectTimer, reconnects, live,
                 outsideBackground>>

\* What the native port may deliver: commands with a string id and a string
\* action, and messages failing the validation in each of its ways.
Command(id, action) ==
  [obj |-> TRUE, idT |-> "string", actT |-> "string", id |-> id, action |-> action]
IllFormed ==
  {[obj |-> FALSE, idT |-> "missing", actT |-> "missing", id |-> 0, action |-> "none"],
   [obj |-> TRUE, idT |-> "missing", actT |-> "string", id |-> 0, action |-> "click"],
   [obj |-> TRUE, idT |-> "number", actT |-> "string", id |-> 1, action |-> "navigate"],
   [obj |-> TRUE, idT |-> "string", actT |-> "missing", id |-> 1, action |-> "none"]}

\* Commands and ill-formed messages over a port that may disconnect and be
\* reopened.
NextBackground ==
  \/ \E id \in {1, 2}, a \in {"click", "navigate", "bogus"} :
       onMessage(Command(id, a))
  \/ \E m \in IllFormed : onMessage(m)
  \/ \E k \in 1..MaxBg, o \in {"ok", "fail", "unavailable", "throw"} : handleCommandDone(k, o)
  \/ onDisconnect
  \/ connect(TRUE)

SpecBackground == Init /\ [][NextBackground]_vars

\* The connection alone: disconnects, reconnect attempts that open a port or
\* throw, and inbound messages that are answered at once.
NextReconnect ==
  \/ onDisconnect
  \/ \E opened \in BOOLEAN : connect(opened)
  \/ onMessage(Command(1, "bogus"))

SpecReconnect == Init /\ [][NextReconnect]_vars

\* One command of each action of the catalog, and one outside it.
NextCatalog ==
  \/ \E id \in {1, 2}, a \in ActionType \cup {"bogus"} :
       bg = <<>> /\ onMessage(Command(id, a))
  \/ \E o \in {"ok", "fail", "unavailable", "throw"} : handleCommandDone(1, o)

SpecCatalog == Init /\ [][NextCatalog]_vars

\* ----------------------------------------------------- navigation wait

\* cleanup of waitForTabLoad that only clears the timer.
cleanupKeepsListeners(w) ==
  [w EXCEPT !.timer = IF @ = "armed" THEN "cleared" ELSE @]

\* cleanup of waitForTabLoad: clearTimeout and the removal of both listeners.
cleanup(w) ==
  [w EXCEPT !.timer = IF @ = "armed" THEN "cleared" ELSE @,
            !.onUpdated = FALSE, !.onRemoved = FALSE]

\* cleanup() followed by resolve() or reject(...).
SettleTabLoad(w, kind) == [cleanup(w) EXCEPT !.settles = Append(@, kind)]

\* waitForTabLoad(tabId), called by handleNavigate after it has issued the
\* navigation, with the tab loading or (cached pages, about:blank) complete:
\* the timer is armed, both listeners are added, tabs.query is sent.
waitForTabLoad(tabId) ==
  /\ Len(nav.waits) < MaxNavs
  /\ nav.tabs[tabId] # "removed"
  /\ nav' = [tabs |-> nav.tabs,
             waits |-> Append(nav.waits,
                         [tabId |-> tabId, timer |-> "armed", onUpdated |-> TRUE,
                          onRemoved |-> TRUE, query |-> TRUE, settles |-> <<>>])]
  /\ UNCHANGED outsideTabLoad

\* browser.tabs.onUpdated fires for a tab with a status: every registered
\* onUpdated listener runs.
onUpdated(tabId, status) ==
  /\ nav.tabs[tabId] # "removed"
  /\ nav' = [tabs |-> [nav.tabs EXCEPT ![tabId] = status],
             waits |-> [k \in DOMAIN nav.waits |->
                         IF nav.waits[k].onUpdated /\ nav.waits[k].tabId = tabId
                              /\ status = "complete"
                         THEN SettleTabLoad(nav.waits[k], "complete")
                         ELSE nav.waits[k]]]
  /\ UNCHANGED outsideTabLoad

\* browser.tabs.onRemoved fires for a tab: every registered onRemoved listener
\* runs.
onRemoved(tabId) ==
  /\ nav.tabs[tabId] # "removed"
  /\ nav' = [tabs |-> [nav.tabs EXCEPT ![tabId] = "removed"],
             waits |-> [k \in DOMAIN nav.waits |->
                         IF nav.waits[k].onRemoved /\ nav.waits[k].tabId = tabId
                         THEN SettleTabLoad(nav.waits[k], "closed")
                         ELSE nav.waits[k]]]
  /\ UNCHANGED outsideTabLoad

\* The setTimeout callback of the k-th wait.
TabLoadTimeout(k) ==
  /\ k \in DOMAIN nav.waits
  /\ nav.waits[k].timer = "armed"
  /\ nav' = [nav EXCEPT !.waits[k] =
               SettleTabLoad([nav.waits[k] EXCEPT !.timer = "fired"], "timeout")]
  /\ UNCHANGED outsideTabLoad

\* The then-callback of the k-th wait's tabs.query: the tab is looked up in the
\* result and, when its status is complete, cleanup and resolve are called.
TabsQueryThen(k) ==
  /\ k \in DOMAIN nav.waits
  /\ nav.waits[k].query
  /\ nav' = [nav EXCEPT !.waits[k] =
               [(IF nav.tabs[nav.waits[k].tabId] = "complete"
                 THEN SettleTabLoad(nav.waits[k], "complete")
                 ELSE nav.waits[k]) EXCEPT !.query = FALSE]]
  /\ UNCHANGED outsideTabLoad

\* Navigations waited for while tabs load, reload and close.
NextTabLoad ==
  \/ \E tabId \in {1, 2} : waitForTabLoad(tabId)
  \/ \E tabId \in {1, 2}, status \in {"loading", "complete"} : onUpdated(tabId, status)
  \/ \E tabId \in {1, 2} : onRemoved(tabId)
  \/ \E k \in 1..MaxNavs : TabLoadTimeout(k)
  \/ \E k \in 1..MaxNavs : TabsQueryThen(k)

SpecTabLoad == Init /\ [][NextTabLoad]_vars

\* An armed timer fires in the end, unless it is cleared first.
FairTabLoad == SpecTabLoad /\ \A k \in 1..MaxNavs : WF_vars(TabLoadTimeout(k))

\* --------------------------------------------------- content script refs

\* buildAccessibilityTree as far as the refs go: resetRefState, then assignRef
\* for each interactive element of the document in depth-first order (here the
\* order of the element numbers), "e0" first.
buildAccessibilityTree ==
  [n \in RefNums |->
     IF \E e \in dom : Cardinality({d \in dom : d < e}) = n
     THEN CHOOSE e \in dom : Cardinality({d \in dom : d < e}) = n
     ELSE 0]

\* handleSnapshot that leaves the earlier entries in the map and overwrites those
\* whose ref it assigns again.
handleSnapshotNoReset ==
  /\ gen < MaxSnaps
  /\ gen' = gen + 1
  /\ refMap' = [n \in RefNums |->
                 IF buildAccessibilityTree[n] # 0 THEN buildAccessibilityTree[n]
                 ELSE refMap[n]]
  /\ issued' = issued \cup
       {[gen |-> gen + 1, ref |-> n, el |-> buildAccessibilityTree[n]] :
          n \in {r \in RefNums : buildAccessibilityTree[r] # 0}}
  /\ UNCHANGED <<dom, mutGen, lastAct, outsideContent>>

\* handleSnapshot: the refs of the new tree are returned to the caller.
handleSnapshot ==
  /\ gen < MaxSnaps
  /\ gen' = gen + 1
  /\ refMap' = buildAccessibilityTree
  /\ issued' = issued \cup
       {[gen |-> gen + 1, ref |-> n, el |-> buildAccessibilityTree[n]] :
          n \in {r \in RefNums : buildAccessibilityTree[r] # 0}}
  /\ UNCHANGED <<dom, mutGen, lastAct, outsideContent>>

\* The page adds an interactive element to the document or removes one.
Mutate(e) ==
  /\ dom' = IF e \in dom THEN dom \ {e} ELSE dom \cup {e}
  /\ mutGen' = gen
  /\ UNCHANGED <<refMap, gen, issued, lastAct, outsideContent>>

\* resolveRef with a lookup by the element the ref was issued for.
resolveRefByElement(i) ==
  /\ i \in issued
  /\ lastAct' = [gen |-> i.gen, ref |-> i.ref, el |-> i.el, at |-> gen,
                 mutated |-> i.gen <= mutGen,
                 outcome |-> IF i.gen = gen /\ i.el \in dom THEN "resolved"
                             ELSE "stale",
                 target |-> IF i.gen = gen /\ i.el \in dom THEN i.el ELSE 0]
  /\ UNCHANGED <<refMap, dom, gen, mutGen, issued, outsideContent>>

\* resolveRef that leaves the entry of a detached element in the map.
resolveRefKeepsEntry(i) ==
  /\ i \in issued
  /\ LET el == refMap[i.ref]
         outcome == IF el = 0 THEN "not found"
                    ELSE IF el \notin dom THEN "stale" ELSE "resolved"
     IN lastAct' = [gen |-> i.gen, ref |-> i.ref, el |-> i.el, at |-> gen,
                    mutated |-> i.gen <= mutGen,
                    outcome |-> outcome,
                    target |-> IF outcome = "resolved" THEN el ELSE 0]
  /\ UNCHANGED <<refMap, dom, gen, mutGen, issued, outsideContent>>

\* An action handler (click, type, hover, select_option, ...) called with a ref
\* that an earlier or the current snapshot returned: resolveRef looks the ref
\* up, fails when the map has no entry, deletes the entry and fails when its
\* element has left the document, and otherwise hands the element to the action.
resolveRef(i) ==
  /\ i \in issued
  /\ LET el == refMap[i.ref]
         outcome == IF el = 0 THEN "not found"
                    ELSE IF el \notin dom THEN "stale" ELSE "resolved"
     IN /\ refMap' = IF outcome = "stale" THEN [refMap EXCEPT ![i.ref] = 0]
                     ELSE refMap
        /\ lastAct' = [gen |-> i.gen, ref |-> i.ref, el |-> i.el, at |-> gen,
                       mutated |-> i.gen <= mutGen,
                       outcome |-> outcome,
                       target |-> IF outcome = "resolved" THEN el ELSE 0]
  /\ UNCHANGED <<dom, gen, mutGen, issued, outsideContent>>

NextContent ==
  \/ handleSnapshot
  \/ \E e \in Elems : Mutate(e)
  \/ \E i \in issued : resolveRef(i)

SpecContent == Init /\ [][NextContent]_vars

\* ------------------------------------------------ accessibility tree builder

\* The node cap. The source has 50000; the walk is modelled with a cap that a
\* document of MaxDoc elements can exceed.
MAX_NODES == 2

\* A document body is a sequence of elements, each with its parent (0 for the
\* body itself, else an earlier element) and its tag: "button" (interactive,
\* role button), "onclick" (a div with a click handler: interactive, role
\* generic), "nav" (not interactive, semantic role), "div" (not interactive,
\* role generic, no name) and "hidden" (isHidden, or a tag of SKIP_TAGS). The
\* elements have no text and no accessible name.
Docs ==
  {doc \in UNION {[1..n -> [parent : 0..(MaxDoc - 1),
                            tag : {"button", "onclick", "nav", "div", "hidden"}]] :
                    n \in 0..MaxDoc} :
     \A i \in 1..Len(doc) : doc[i].parent < i}

NoNode == [role |-> "none"]

\* flattenGenericChildren that inlines a generic node even when it carries a ref.
RECURSIVE flattenAnyGeneric(_)
flattenAnyGeneric(children) ==
  IF children = <<>> THEN <<>>
  ELSE LET child == Head(children)
       IN (IF child.role = "generic" /\ child.children # <<>>
           THEN flattenAnyGeneric(child.children)
           ELSE <<child>>) \o flattenAnyGeneric(Tail(children))

\* flattenGenericChildren that promotes nothing.
flattenNothing(children) == children

\* flattenGenericChildren
RECURSIVE flattenGenericChildren(_)
flattenGenericChildren(children) ==
  IF children = <<>> THEN <<>>
  ELSE LET child == Head(children)
       IN (IF child.role = "generic" /\ child.ref = -1 /\ child.children # <<>>
           THEN flattenGenericChildren(child.children)
           ELSE <<child>>) \o flattenGenericChildren(Tail(children))

\* buildNode for element i of doc, and its loop over the element children of p
\* from element i on. st holds nodeCount, refCounter and refMap (pairs of a ref
\* number and an element), and the node cap the walk runs under.
RECURSIVE buildNode(_, _, _, _), buildChildren(_, _, _, _, _)
buildChildren(doc, p, i, depth, st) ==
  IF i > Len(doc) THEN [nodes |-> <<>>, st |-> st]
  ELSE IF doc[i].parent # p THEN buildChildren(doc, p, i + 1, depth, st)
  ELSE LET b == buildNode(doc, i, depth, st)
           rest == buildChildren(doc, p, i + 1, depth, b.st)
       IN [nodes |-> (IF b.node = NoNode THEN <<>> ELSE <<b.node>>) \o rest.nodes,
           st |-> rest.st]

buildNode(doc, i, depth, st) ==
  IF st.nodeCount >= st.cap THEN [node |-> NoNode, st |-> st]
  ELSE
    LET st1 == [st EXCEPT !.nodeCount = @ + 1]
        tag == doc[i].tag
        interactive == tag \in {"button", "onclick"}
        semantic == tag \in {"button", "nav"}
    IN IF depth > 100 \/ tag = "hidden" THEN [node |-> NoNode, st |-> st1]
       ELSE
         LET c == buildChildren(doc, i, i + 1, depth + 1, st1)
         IN IF ~interactive /\ ~semantic
            THEN [node |-> IF c.nodes = <<>> THEN NoNode
                           ELSE IF Len(c.nodes) = 1 THEN c.nodes[1]
                           ELSE [role |-> "generic", ref |-> -1, el |-> i,
                                 children |-> c.nodes],
                  st |-> c.st]
            ELSE
              LET flat == flattenGenericChildren(c.nodes)
              IN IF interactive
                 THEN [node |-> [role |-> IF semantic THEN tag ELSE "generic",
                                 ref |-> c.st.refCounter, el |-> i,
                                 children |-> flat],
                       st |-> [c.st EXCEPT
                                 !.refCounter = @ + 1,
                                 !.refMap = @ \cup {<<c.st.refCounter, i>>}]]
                 ELSE [node |-> IF flat = <<>> THEN NoNode
                                ELSE [role |-> tag, ref |-> -1, el |-> i,
                                      children |-> flat],
                       st |-> c.st]

\* buildAccessibilityTree that notes a truncation only when nodeCount has passed
\* the cap.
buildAccessibilityTreePastCap(doc) ==
  LET b == buildChildren(doc, 0, 1, 0,
                         [nodeCount |-> 0, refCounter |-> 0, refMap |-> {},
                          cap |-> MAX_NODES])
      flat == flattenGenericChildren(b.nodes)
  IN [root |-> [role |-> "document", ref |-> -1, el |-> 0,
                children |-> IF b.st.nodeCount > MAX_NODES
                             THEN Append(flat, [role |-> "text", ref |-> -1, el |-> 0,
                                                children |-> <<>>])
                             ELSE flat],
      refMap |-> b.st.refMap,
      refCounter |-> b.st.refCounter,
      nodeCount |-> b.st.nodeCount]

\* buildAccessibilityTree on a document, with the node cap at cap: the root
\* node with the state the walk has left in refMap, refCounter and nodeCount.
\* The only text node of a tree is the one noting the truncation.
buildAccessibilityTreeUnder(doc, cap) ==
  LET b == buildChildren(doc, 0, 1, 0,
                         [nodeCount |-> 0, refCounter |-> 0, refMap |-> {},
                          cap |-> cap])
      flat == flattenGenericChildren(b.nodes)
  IN [root |-> [role |-> "document", ref |-> -1, el |-> 0,
                children |-> IF b.st.nodeCount >= cap
                             THEN Append(flat, [role |-> "text", ref |-> -1, el |-> 0,
                                                children |-> <<>>])
                             ELSE flat],
      refMap |-> b.st.refMap,
      refCounter |-> b.st.refCounter,
      nodeCount |-> b.st.nodeCount]

\* buildAccessibilityTree under the scaled cap.
buildAccessibilityTreeOf(doc) == buildAccessibilityTreeUnder(doc, MAX_NODES)

\* A snapshot request on a page with the given body, as the first call.
Snapshot(doc) ==
  /\ call.op = "none"
  /\ call' = [op |-> "snapshot", in |-> doc, out |-> buildAccessibilityTreeOf(doc)]
  /\ UNCHANGED outsideHandlers

\* A snapshot request on a page far smaller than the cap, which stands at the
\* 50000 of the source, as the first call.
SnapshotSmallPage(doc) ==
  /\ call.op = "none"
  /\ call' = [op |-> "snapshot of a small page", in |-> doc,
              out |-> buildAccessibilityTreeUnder(doc, 50000)]
  /\ UNCHANGED outsideHandlers

\* What one iteration of the loop of handleFillForm does with a field: the
\* error it collects, "none" when the field is filled. A field is given by what
\* resolveRef does with its ref, its declared type, the element behind the ref
\* and, for a select element, whether an option matches the value.
FieldError(field) ==
  IF ~field.refOk THEN "ref"
  ELSE IF field.type = "textbox"
       THEN (IF field.el \in {"text", "editable"} THEN "none" ELSE "not a text input")
  ELSE IF field.type = "checkbox"
       THEN (IF field.el = "checkbox" THEN "none" ELSE "not a checkbox")
  ELSE IF field.type = "radio"
       THEN (IF field.el = "radio" THEN "none" ELSE "not a radio button")
  ELSE IF field.type = "combobox"
       THEN (IF field.el # "select" THEN "not a select element"
             ELSE IF field.option THEN "none" ELSE "option not found")
  ELSE IF field.type = "slider"
       THEN (IF field.el = "range" THEN "none" ELSE "not a range input")
  ELSE "unknown field type"

\* The loop of handleFillForm that lets the error of a field end the batch.
RECURSIVE handleFillFormAborting(_, _, _)
handleFillFormAborting(fields, k, acc) ==
  IF k > Len(fields) THEN acc
  ELSE IF FieldError(fields[k]) = "none"
       THEN handleFillFormAborting(fields, k + 1,
              [acc EXCEPT !.filledCount = @ + 1, !.attempted = Append(@, k)])
       ELSE [acc EXCEPT !.attempted = Append(@, k),
                        !.errors = Append(@, <<k, FieldError(fields[k])>>)]

\* handleFillForm from field k on: each field is resolved and filled inside its
\* own try, an error is pushed on errors and the loop goes on.
RECURSIVE handleFillForm(_, _, _)
handleFillForm(fields, k, acc) ==
  IF k > Len(fields) THEN acc
  ELSE handleFillForm(fields, k + 1,
         IF FieldError(fields[k]) = "none"
         THEN [acc EXCEPT !.filledCount = @ + 1, !.attempted = Append(@, k)]
         ELSE [acc EXCEPT !.attempted = Append(@, k),
                          !.errors = Append(@, <<k, FieldError(fields[k])>>)])

\* A fill_form request as the first call. The result has its errors member only
\* when an error was collected.
FillForm(fields) ==
  /\ call.op = "none"
  /\ LET r == handleFillForm(fields, 1,
                 [filledCount |-> 0, errors |-> <<>>, attempted |-> <<>>])
     IN call' = [op |-> "fill_form", in |-> fields,
                 out |-> [filledCount |-> r.filledCount,
                          hasErrors |-> Len(r.errors) > 0,
                          errors |-> r.errors,
                          attempted |-> r.attempted]]
  /\ UNCHANGED outsideHandlers

\* The fields tried: one that fills, and one for each way of failing.
FieldCases ==
  {[refOk |-> TRUE, type |-> "textbox", el |-> "text", option |-> FALSE],
   [refOk |-> TRUE, type |-> "combobox", el |-> "select", option |-> TRUE],
   [refOk |-> FALSE, type |-> "textbox", el |-> "text", option |-> FALSE],
   [refOk |-> TRUE, type |-> "checkbox", el |-> "text", option |-> FALSE],
   [refOk |-> TRUE, type |-> "combobox", el |-> "select", option |-> FALSE],
   [refOk |-> TRUE, type |-> "date", el |-> "text", option |-> FALSE]}

\* handleSelectOption on a select element with the given options, each with its
\* text and its value attribute: for every requested value the first option
\* whose text or whose value attribute equals it is selected, and a value that
\* no option matches ends the call with an error. picked lists, per value, the
\* position of the option selected.
RECURSIVE handleSelectOption(_, _, _, _)
handleSelectOption(options, values, k, picked) ==
  IF k > Len(values) THEN [error |-> "none", picked |-> picked]
  ELSE LET matches == {o \in 1..Len(options) :
                         options[o].text = values[k] \/ options[o].value = values[k]}
       IN IF matches = {} THEN [error |-> "not found", picked |-> picked]
          ELSE handleSelectOption(options, values, k + 1,
                 Append(picked, CHOOSE o \in matches : \A m \in matches : o <= m))

\* A select_option request on a select element as the first call.
SelectOption(options, values) ==
  /\ call.op = "none"
  /\ call' = [op |-> "select_option", in |-> [options |-> options, values |-> values],
              out |-> handleSelectOption(options, values, 1, <<>>)]
  /\ UNCHANGED outsideHandlers

\* A content request as the first call.
ProcessRequest(action, h) ==
  /\ call.op = "none"
  /\ call' = [op |-> "request", in |-> [action |-> action, h |-> h],
              out |-> processRequest(1, action, h)]
  /\ UNCHANGED outsideHandlers

\* handlePressKey: the keyboard events it dispatches, in order, each with its
\* target: document.activeElement, or document.body when that is null.
handlePressKey(activeElement) ==
  LET target == IF activeElement = "null" THEN "body" ELSE activeElement
  IN <<[type |-> "keydown", target |-> target],
       [type |-> "keypress", target |-> target],
       [type |-> "keyup", target |-> target]>>

\* A press_key request as the first call, with the focus on an element or
\* nowhere.
PressKey(activeElement) ==
  /\ call.op = "none"
  /\ call' = [op |-> "press_key", in |-> activeElement,
              out |-> handlePressKey(activeElement)]
  /\ UNCHANGED outsideHandlers

NextHandlers ==
  \/ \E doc \in Docs : Snapshot(doc)
  \/ \E activeElement \in {"null", "input", "button"} : PressKey(activeElement)
  \/ \E doc \in Docs : SnapshotSmallPage(doc)
  \/ \E action \in ActionType, h \in {"returns", "throws", "not a function", "timeout"} :
       ProcessRequest(action, h)
  \/ \E n \in 0..MaxOptions, v \in 1..2 :
       \E options \in [1..n -> [text : {"a", "b"}, value : {"a", "b"}]],
          values \in [1..v -> {"a", "b"}] : SelectOption(options, values)
  \/ \E n \in 0..MaxFields : \E fields \in [1..n -> FieldCases] : FillForm(fields)

SpecHandlers == Init /\ [][NextHandlers]_vars

\* ------------------------------------------------------------- wait_for

\* checkText of handleWaitFor that leaves the timeout timer armed.
checkTextKeepsTimeout(w) ==
  IF w.resolved THEN w
  ELSE IF (w.mode = "text") = w.present
  THEN [w EXCEPT !.resolved = TRUE, !.observer = FALSE, !.settles = Append(@, TRUE)]
  ELSE w

\* checkText of handleWaitFor: when the condition holds of the body's text now,
\* the timeout is cleared, the observer disconnected and the wait resolved
\* with matched true.
checkText(w) ==
  IF w.resolved THEN w
  ELSE IF (w.mode = "text") = w.present
  THEN [w EXCEPT !.resolved = TRUE, !.timeout = "cleared", !.observer = FALSE,
                 !.settles = Append(@, TRUE)]
  ELSE w

\* handleWaitFor with text (mode "text"), textGone (mode "textGone") or
\* neither but a time (mode "time") on a page whose body holds the text or
\* not: with neither, only a timer that resolves with matched true; otherwise the
\* immediate check, and failing that the timeout timer and the observer.
handleWaitFor(mode, present) ==
  /\ wf.mode = "none"
  /\ wf' = IF mode = "time"
           THEN [wf EXCEPT !.mode = mode, !.present = present, !.timeout = "armed"]
           ELSE IF (mode = "text") = present
           THEN [wf EXCEPT !.mode = mode, !.present = present, !.settles = <<TRUE>>]
           ELSE [wf EXCEPT !.mode = mode, !.present = present, !.timeout = "armed",
                           !.observer = TRUE]
  /\ UNCHANGED outsideWaitFor

\* A mutation of the body that leaves the text present or absent, and the
\* observer's callback that follows it: unless a debounce timer is pending
\* one is armed for 100 ms, which is before the timeout's expiry ("early") or,
\* in the last 100 ms of the wait, after it ("late").
Mutation(present, late) ==
  /\ wf.mode # "none"
  /\ wf.muts < MaxMuts
  /\ wf' = [wf EXCEPT !.present = present, !.muts = @ + 1,
                      !.debounce = IF wf.observer /\ ~wf.resolved /\ @ = "null"
                                   THEN (IF late THEN "late" ELSE "early")
                                   ELSE @]
  /\ UNCHANGED outsideWaitFor

\* The debounce timer's callback.  Timers fire in the order of their expiry.
DebounceFires ==
  /\ wf.debounce \in {"early", "late"}
  /\ wf.debounce = "late" => wf.timeout # "armed"
  /\ wf' = checkText([wf EXCEPT !.debounce = "null"])
  /\ UNCHANGED outsideWaitFor

\* The timeout timer's callback: unless resolved, it clears a pending debounce
\* timer, disconnects the observer and resolves with matched false.  The timer
\* of a call that names no text resolves with matched true.
WaitForTimeout ==
  /\ wf.timeout = "armed"
  /\ wf.debounce # "early"
  /\ wf' = IF wf.mode = "time"
           THEN [wf EXCEPT !.timeout = "fired", !.settles = Append(@, TRUE)]
           ELSE IF wf.resolved THEN [wf EXCEPT !.timeout = "fired"]
           ELSE [wf EXCEPT !.timeout = "fired", !.resolved = TRUE,
                           !.debounce = IF @ = "null" THEN @ ELSE "cleared",
                           !.observer = FALSE, !.settles = Append(@, FALSE)]
  /\ UNCHANGED outsideWaitFor

\* One wait_for call on a page that keeps changing.
NextWaitFor ==
  \/ \E mode \in {"text", "textGone", "time"}, present \in BOOLEAN : handleWaitFor(mode, present)
  \/ \E present \in BOOLEAN, late \in BOOLEAN : Mutation(present, late)
  \/ DebounceFires
  \/ WaitForTimeout

SpecWaitFor == Init /\ [][NextWaitFor]_vars

\* An armed timer fires in the end, unless it is cleared first.
FairWaitFor == SpecWaitFor /\ WF_vars(DebounceFires) /\ WF_vars(WaitForTimeout)

\* ------------------------------------------------------------------ claims

Submitted == 1..nsub

\* C1: under any interleaving of responses, timer expiry and client disconnect,
\* every command accepted by sendCommand is settled exactly once, by the response
\* carrying its correlation id, by a timeout rejection or by a disconnect
\* rejection; resolve / reject is never called a second time, and the command is
\* never left unsettled.
C1_OneOfThree(s) ==
  /\ Len(settles[s]) <= 1
  /\ Outcome(s) \in {"none", "response", "timeout", "disconnect"}
  /\ Outcome(s) = "response" => settles[s][1].id = cmdId[s]

C1_SettledExactlyOnce ==
  /\ [](\A s \in Submitted : C1_OneOfThree(s))
  /\ \A s \in Subs : (s \in Submitted) ~> (settles[s] # <<>>)

C1_Witness ==
  /\ nsub = 2 /\ Outcome(1) = "timeout" /\ Outcome(2) = "response"
  /\ client = 0 /\ emitted.disconnected = 1

\* C2: with several commands in flight and responses in any order, the response
\* that resolves a sendCommand call carries that call's correlation id.
C2_ResponseMatchesId ==
  \A s \in Submitted : \A k \in 1..Len(settles[s]) :
    settles[s][k].kind = "response" => settles[s][k].id = cmdId[s]

\* Both commands were in flight and the later one was answered first.
C2_Witness ==
  /\ nsub = 2
  /\ Outcome(2) = "response"
  /\ Outcome(1) = "none" /\ pending[cmdId[1]] = 1

\* C3: at most one socket is attached at any time; a connection that arrives
\* while a client is attached is destroyed at once, the attached client stays,
\* and a destroyed arrival never becomes the client.
C3_Inv ==
  /\ Cardinality({s \in Socks : sock[s] \in {"open", "destroyed"}}) <= 1
  /\ \A s \in Socks : sock[s] = "open" => client = s
  /\ \A s \in Socks : sock[s] = "rejected" => client # s

C3_Step ==
  /\ (client # 0 /\ nsock' = nsock + 1) =>
        (sock'[nsock'] = "rejected" /\ client' = client)
  /\ \A s \in Socks : sock[s] = "rejected" => sock'[s] = "rejected"

C3_AtMostOneClient == [](C3_Inv) /\ [][C3_Step]_vars

C3_Witness == \E s \in Socks : sock[s] = "rejected" /\ client # 0 /\ sock[client] = "open"

\* C4: for any sequence of sendCommand calls with caller-chosen ids, responses,
\* timer expiries, write failures, disconnects and close, a command's timeout
\* timer is armed exactly when its entry is in the pending table.
C4_TimerIffEntry ==
  \A s \in Submitted : timerArmed[s] <=> pending[cmdId[s]] = s

\* C5: a command whose timer fires is rejected with the timeout error once, its
\* entry being gone from the table when reject is called; a response for an id
\* that has no entry changes nothing of the broker's state and no command's outcome.
C5_Inv ==
  \A s \in Submitted :
    /\ Cardinality({k \in 1..Len(settles[s]) : settles[s][k].kind = "timeout"}) <= 1
    /\ \A k \in 1..Len(settles[s]) :
         settles[s][k].kind = "timeout" => ~settles[s][k].inTable
    /\ Outcome(s) = "timeout" => (~timerArmed[s] /\ pending[cmdId[s]] # s)

C5_LateResponseDropped ==
  \A i \in Ids :
    (client # 0 /\ pending[i] = 0
       /\ DataPiece(client, encodeFrame([type |-> "response", id |-> i])))
    => UNCHANGED <<server, client, sock, nsock, hasEverConnected, decoder, pending,
                   nsub, cmdId, timerArmed, wr, settles, hb, emitted, lastError>>

C5_TimeoutThenDrop == [](C5_Inv) /\ [][C5_LateResponseDropped]_vars

C5_Witness ==
  \E s \in Submitted :
    /\ settles[s] = <<[kind |-> "timeout", id |-> 0, inTable |-> FALSE, via |-> 0]>>
    /\ discarded = cmdId[s] /\ client # 0

\* C6: when the attached client detaches, every command pending at that moment
\* is rejected with the disconnect error, and when 'client-disconnected' is
\* emitted the table is empty, no command timer, heartbeat interval or pong timer
\* is armed, the decoder buffer is empty and the broker is not connected.
C6_Step ==
  (emitted'.disconnected = emitted.disconnected + 1) =>
    /\ \A s \in Submitted :
         settles[s] = <<>> =>
           (Len(settles'[s]) = 1 /\ settles'[s][1].kind = "disconnect")
    /\ \A i \in Ids : pending'[i] = 0
    /\ \A s \in Subs : ~timerArmed'[s]
    /\ ~hb'.interval /\ hb'.pongTimeout # "armed" /\ ~hb'.awaitingPong
    /\ decoder' = <<>>
    /\ client' = 0

C6_DetachCleansUp == [][C6_Step]_vars

C6_Witness ==
  /\ emitted.disconnected = 1 /\ client = 0
  /\ nsub = 2 /\ Outcome(1) = "disconnect" /\ Outcome(2) = "disconnect"

\* C7: when the pong timer fires with a client attached, the client socket is
\* destroyed, its 'close' then runs the disconnect path, and every command still
\* pending then is rejected with the disconnect error.
C7_Step ==
  /\ (hb.pongTimeout = "armed" /\ hb'.pongTimeout = "fired" /\ client # 0) =>
        (sock'[client] = "destroyed" /\ lastError' = "Heartbeat timeout")
  /\ \A s \in Socks : (sock[s] = "destroyed" /\ sock'[s] = "closed") =>
        /\ client' = 0
        /\ \A c \in Submitted : settles[c] = <<>> => Outcome(c)' = "disconnect"

C7_HeartbeatLoss ==
  /\ [][C7_Step]_vars
  /\ \A s \in Socks : (sock[s] = "destroyed") ~> (sock[s] = "closed")

C7_Witness ==
  /\ lastError = "Heartbeat timeout" /\ hb.pongTimeout = "null"
  /\ sock[1] = "closed" /\ client = 0 /\ server = "listening"
  /\ nsub = 1 /\ Outcome(1) = "disconnect"


\* C9: when the frame at the front of the broker's decoder declares a length
\* above 64 MB, the decoder throws with that header and everything after it
\* left unconsumed, the broker destroys that socket and nothing else (no command
\* is settled, the listener stays), the socket's 'close' runs the disconnect
\* path, and a later client attaches and has its responses dispatched.
Delivered == SubSeq(wire, 1, Len(wire) - Len(wire'))

IsDeliver ==
  client # 0 /\ sock[client] = "open" /\ sock'[client] # "closed"
    /\ Len(wire') < Len(wire)

RECURSIVE IsSuffix(_, _)
IsSuffix(s, t) ==
  IF Len(s) > Len(t) THEN FALSE
  ELSE IF Len(s) = Len(t) THEN s = t
  ELSE IsSuffix(s, Tail(t))

C9_Step ==
  /\ (IsDeliver /\ Len(decoder \o Delivered) >= 4
        /\ ReadUInt32BE(decoder \o Delivered) > IPC_MAX_FRAME)
       => (sock'[client] = "destroyed" /\ lastError' = "Frame too large")
  /\ \A c \in Socks :
       (sock[c] = "open" /\ sock'[c] = "destroyed" /\ lastError' = "Frame too large")
       => /\ IsSuffix(decoder', decoder \o Delivered)
          /\ Len(decoder') >= 4 /\ ReadUInt32BE(decoder') > IPC_MAX_FRAME
          /\ \A d \in Socks \ {c} : sock'[d] = sock[d]
          /\ server' = "listening" /\ client' = c
          /\ UNCHANGED <<pending, timerArmed, settles, hb, hasEverConnected>>
  /\ \A c \in Socks :
       (sock[c] = "destroyed" /\ sock'[c] = "closed")
       => (client' = 0 /\ decoder' = <<>> /\ server' = "listening"
            /\ \A i \in Ids : pending'[i] = 0)
  /\ (client = 0 /\ server = "listening" /\ nsock' = nsock + 1)
       => (client' = nsock' /\ sock'[nsock'] = "open" /\ decoder' = <<>>)

C9_OversizeKillsConnectionOnly == [][C9_Step]_vars

\* The first client was killed for an oversized header, and a response of the
\* second client resolved a command.
C9_Witness ==
  /\ lastError = "Frame too large" /\ sock[1] = "closed"
  /\ client = 2 /\ sock[2] = "open" /\ server = "listening"
  /\ \E s \in Submitted :
       Len(settles[s]) = 1 /\ settles[s][1].kind = "response" /\ settles[s][1].via = 2


\* C8: for any byte stream and any two ways of cutting it into chunks, pushing
\* the chunks in order into a fresh decoder yields the same sequence of messages.
C8_PartitionIndependent ==
  (posA = Len(stream) /\ posB = Len(stream)) => outA = outB

\* C10: the relay writes command frames to standard output one at a time, in the
\* order the commands arrived: a frame's write starts only when the write of
\* every earlier frame has completed, so the bytes on standard output are the
\* frames' bytes in order, never interleaved, also while a write is stalled.
RECURSIVE WrittenUpTo(_)
WrittenUpTo(k) ==
  IF k = 0 THEN <<>>
  ELSE WrittenUpTo(k - 1) \o SubSeq(nativeFrame(relayCmds[k]), 1, written[k])

C10_WritesSerialized ==
  /\ Cardinality({k \in 1..Len(relayCmds) : wstate[k] = "writing"}) <= 1
  /\ \A k \in 1..Len(relayCmds) :
       wstate[k] # "queued" => \A j \in 1..(k - 1) : Settled(wstate[j])
  /\ \A k \in 1..Len(relayCmds) : wstate[k] = "queued" => written[k] = 0
  /\ stdout = WrittenUpTo(Len(relayCmds))

\* The second command arrived while the first frame was partly written, and
\* the first frame was completed before the second was begun.
C10_Witness ==
  /\ Len(relayCmds) = 2 /\ relayCmds[1] # relayCmds[2]
  /\ wstate[1] = "done" /\ wstate[2] = "writing"
  /\ written[2] = 2
  /\ stdout = nativeFrame(relayCmds[1]) \o SubSeq(nativeFrame(relayCmds[2]), 1, 2)


\* C11: a failed write to standard output starts the relay's shutdown (the IPC
\* client is closed and the exit timer armed) and the relay eventually exits;
\* shutdown runs past its guard at most once however many writes fail and
\* whatever other trigger (end of standard input, health check) fires.
C11_Step ==
  /\ (\E k \in 1..MaxCmds : wstate[k] = "writing" /\ wstate'[k] = "failed")
       => (shuttingDown' /\ ~ipcOpen' /\ exitTimer')
  /\ (nshutdown' # nshutdown) => (~shuttingDown /\ ~ipcOpen' /\ exitTimer')

C11_WriteFailureFatal ==
  /\ [](nshutdown <= 1)
  /\ [][C11_Step]_vars
  /\ \A k \in 1..MaxCmds : (wstate[k] = "failed") ~> exited

\* Two writes failed, standard input ended, and the relay exited after one shutdown.
C11_Witness ==
  /\ wstate[1] = "failed" /\ wstate[2] = "failed" /\ ~stdinOpen
  /\ exited /\ nshutdown = 1


\* C12: a framing error on the relay's standard input (a payload that does not
\* parse, or a declared length above 1 MB) only skips that message: no chunk of
\* standard input ends the read loop or starts shutdown, and the relay goes on
\* forwarding.
C12_Step ==
  (nchunks' = nchunks + 1) =>
    (stdinOpen' /\ UNCHANGED <<shuttingDown, exitTimer, healthArmed, nshutdown>>)

C12_StdinErrorSkipped == [][C12_Step]_vars


\* C13: when standard input ends, or the relay's IPC connection is lost (also by
\* a framing error on it), the relay eventually exits, having closed its IPC
\* client in one shutdown; a lost IPC connection is never opened again.
C13_ExitOnEofOrIpcLoss ==
  /\ (~stdinOpen) ~> exited
  /\ (~ipcOpen) ~> exited
  /\ [](exited => (~ipcOpen /\ shuttingDown /\ nshutdown = 1))
  /\ [][~ipcOpen => ~ipcOpen']_vars

\* The relay exited through the health check, standard input still open.
C13_Witness == exited /\ stdinOpen /\ ~healthArmed /\ nshutdown = 1


\* C14: a tool call that finds no client and whose wait runs out returns an
\* error and submits nothing: no pending entry, timer or write is created, the
\* table stays empty while no client is attached, and a client that attaches
\* later receives commands only for the calls still waiting.  The error is the
\* "disconnected" message exactly when a client has ever been attached, and the
\* "not connected" message otherwise.
C14_Step ==
  /\ (waiters' < waiters /\ nsub' = nsub) =>
       /\ toolError' = (IF hasEverConnected THEN "disconnected" ELSE "not connected")
       /\ UNCHANGED <<pending, cmdId, timerArmed, wr, settles, client>>
  /\ (client = 0 /\ client' # 0) => (nsub' = nsub + waiters /\ waiters' = 0)

C14_NoConnectionError ==
  /\ [](client = 0 => \A i \in Ids : pending[i] = 0)
  /\ [][C14_Step]_vars

\* A call failed with "disconnected" after the first client had gone, and the
\* second client attached without receiving any command.
C14_Witness ==
  /\ toolError = "disconnected" /\ client = 2 /\ sock[1] = "closed"
  /\ nsub = 0 /\ waiters = 0


\* C15: on a signal the gateway first closes the broker, which rejects every
\* pending command with the closing error and leaves the table empty, no timer
\* armed and the listener closed; the MCP transport is closed after that, and
\* the process exits only once that close has settled.
C15_Step ==
  /\ (gwPhase = "running" /\ gwPhase' # "running") =>
       /\ gwPhase' = "closing"
       /\ server' = "closed" /\ client' = 0
       /\ \A s \in Submitted : settles[s] = <<>> => Outcome(s)' = "closing"
  /\ (gwPhase # "exited" /\ gwPhase' = "exited") => gwPhase = "closing"
  /\ (gwPhase # "running") => (gwPhase' # "running")

C15_ShutdownOrder ==
  /\ [](gwPhase # "running" =>
          /\ server = "closed"
          /\ \A i \in Ids : pending[i] = 0
          /\ \A s \in Subs : ~timerArmed[s]
          /\ ~hb.interval /\ hb.pongTimeout # "armed")
  /\ [][C15_Step]_vars

\* The gateway exited after close() had rejected two pending commands.
C15_Witness ==
  /\ gwPhase = "exited" /\ server = "closed"
  /\ nsub = 2 /\ Outcome(1) = "closing" /\ Outcome(2) = "closing"

\* C16: a well-formed command whose handling has finished has exactly one posted
\* response, carrying the command's id, on every path; a command still being
\* handled has none yet; an ill-formed message has none at all.
C16_OneResponse ==
  \A k \in 1..Len(bg) :
    /\ bg[k].wf /\ bg[k].phase = "done" =>
         Len(bg[k].posts) = 1 /\ bg[k].posts[1].id = bg[k].id
    /\ bg[k].wf /\ bg[k].phase = "running" => bg[k].posts = <<>>
    /\ ~bg[k].wf => bg[k].posts = <<>> /\ bg[k].phase = "dropped"

C16_Witness ==
  /\ Len(bg) = 2
  /\ ~bg[1].wf
  /\ bg[2].wf /\ bg[2].phase = "done" /\ bg[2].id = 2
  /\ bg[2].posts[1].error = "thrown" /\ bg[2].posts[1].delivered

\* C17: every command whose action is one of the ten page-interaction actions
\* is forwarded to the content script, every command whose action is one of
\* the eleven browser-API actions is handled by the background itself, and no
\* action of the catalog is answered as unknown.
C17_CatalogRouted ==
  \A k \in 1..Len(bg) :
    /\ bg[k].action \in {"snapshot", "click", "type", "press_key", "hover",
                         "fill_form", "select_option", "evaluate", "wait_for",
                         "page_content"}
         => bg[k].route = "content"
    /\ bg[k].action \in {"navigate", "navigate_back", "screenshot", "tabs",
                         "close", "resize", "save_pdf", "get_cookies",
                         "get_bookmarks", "get_history", "network_requests"}
         => bg[k].route = "background"
    /\ bg[k].action \in ActionType => bg[k].route # "unknown"

\* C18: while no inbound message arrives, at most five reconnect attempts are
\* made, the timer of the k-th attempt is armed with 1 s x 2^(k-1), and after the
\* fifth attempt no timer is armed.
C18_BoundedBackoff ==
  /\ reconnects <= MAX_RECONNECT_RETRIES
  /\ reconnectTimer # 0 =>
       /\ reconnects < MAX_RECONNECT_RETRIES
       /\ reconnectTimer = BASE_RECONNECT_DELAY_MS * 2 ^ reconnects

\* C19: the attempt counter returns to zero only in a step that receives an
\* inbound message, and a step that opens a port leaves the counter as it was.
C19_Step ==
  /\ reconnectAttempts # 0 /\ reconnectAttempts' = 0 => Len(bg') = Len(bg) + 1
  /\ port = "null" /\ port' = "open" => reconnectAttempts' = reconnectAttempts
C19_ResetOnlyOnMessage == [][C19_Step]_vars

\* C20: once a later snapshot has been built, the ref of an earlier snapshot has
\* no entry in the map; and an action that supplies a ref of an earlier
\* snapshot, or a ref issued before a structural mutation, fails with a
\* reference error and acts on no element.
C20_StaleRefRejected ==
  /\ \A i \in issued : i.gen < gen => refMap[i.ref] = 0
  /\ lastAct.outcome # "none" /\ (lastAct.gen < lastAct.at \/ lastAct.mutated) =>
       lastAct.outcome \in {"not found", "stale"} /\ lastAct.target = 0

\* C21: a lookup of a ref of the latest snapshot whose entry is in the map
\* returns the element the ref was assigned to exactly when that element is in
\* the document; when it is not, the lookup fails as stale and removes the
\* entry; a lookup of a ref whose entry was removed fails as not found.
C21_Step ==
  (lastAct' # lastAct \/ refMap' # refMap) /\ gen' = gen /\ dom' = dom
    /\ lastAct'.gen = gen =>
      LET r == lastAct'.ref
          e == lastAct'.el
      IN IF refMap[r] = 0
         THEN lastAct'.outcome = "not found" /\ refMap' = refMap
         ELSE /\ (lastAct'.outcome = "resolved" /\ lastAct'.target = e) <=> e \in dom
              /\ e \in dom => refMap' = refMap
              /\ e \notin dom => /\ lastAct'.outcome = "stale"
                                 /\ refMap' = [refMap EXCEPT ![r] = 0]
C21_ResolveIffAttached == [][C21_Step]_vars

\* A ref of the latest snapshot was looked up after its element had left the
\* document, and looked up again: the second lookup found no entry.
C21_Witness ==
  /\ lastAct.outcome = "not found"
  /\ lastAct.gen = gen
  /\ lastAct.el \notin dom

\* C22: every entry of the map was inserted by the most recent snapshot, for an
\* element that snapshot visited; before the first snapshot the map is empty.
C22_EntriesOfLatestSnapshot ==
  \A n \in RefNums :
    refMap[n] # 0 =>
      /\ gen > 0
      /\ [gen |-> gen, ref |-> n, el |-> refMap[n]] \in issued

\* A second snapshot found fewer elements than the first and a lookup has
\* taken place since: the map holds an entry, and a ref of the first snapshot
\* has none.
C22_Witness ==
  /\ gen = 2
  /\ lastAct.outcome # "none" /\ lastAct.at = 2
  /\ \E n \in RefNums : refMap[n] # 0
  /\ \E i \in issued : i.gen = 1 /\ refMap[i.ref] = 0 /\ i.el \in dom

\* The nodes of a tree that carry a ref, each as the pair of its ref and its
\* element, in tree order.
RECURSIVE RefNodes(_)
RefNodes(nodes) ==
  IF nodes = <<>> THEN <<>>
  ELSE (IF Head(nodes).ref # -1 THEN <<<<Head(nodes).ref, Head(nodes).el>>>> ELSE <<>>)
       \o RefNodes(Head(nodes).children) \o RefNodes(Tail(nodes))

\* C23: after a snapshot that assigned n refs the keys of the map are 0..n-1,
\* they map to n distinct interactive elements, and the ref-carrying nodes of the
\* tree are the entries of the map, each entry on exactly one node.
C23_RefsMatchTree ==
  call.op = "snapshot" =>
    LET map == call.out.refMap
        n == call.out.refCounter
        onTree == RefNodes(<<call.out.root>>)
    IN /\ {e[1] : e \in map} = 0..(n - 1)
       /\ Cardinality(map) = n
       /\ Cardinality({e[2] : e \in map}) = n
       /\ \A e \in map : call.in[e[2]].tag \in {"button", "onclick"}
       /\ {onTree[k] : k \in 1..Len(onTree)} = map
       /\ Len(onTree) = n

\* A snapshot of a body with an interactive element inside another one and a
\* third element that the cap cut off: two refs, the inner element first.
C23_Witness ==
  /\ call.op = "snapshot"
  /\ Len(call.in) = 3
  /\ call.out.refMap = {<<0, 2>>, <<1, 1>>}
  /\ call.in[3].tag = "button"

\* The root of the latest snapshot ends with the truncation note and has no
\* other text node among its children.
TruncationNoted ==
  LET kids == call.out.root.children
  IN /\ kids # <<>>
     /\ kids[Len(kids)].role = "text"
     /\ \A k \in 1..(Len(kids) - 1) : kids[k].role # "text"

\* Element i of the document lies below a hidden or skipped element.
RECURSIVE BelowHidden(_, _)
BelowHidden(doc, i) ==
  /\ doc[i].parent # 0
  /\ \/ doc[doc[i].parent].tag = "hidden"
     \/ BelowHidden(doc, doc[i].parent)

\* C28 as stated: a snapshot processes at most the cap of elements, and when the
\* document holds more elements than the cap the root's last child is the one
\* truncation note.
C28_AsStated ==
  call.op = "snapshot" =>
    /\ call.out.nodeCount <= MAX_NODES
    /\ Len(call.in) > MAX_NODES => TruncationNoted

\* C28: a snapshot processes at most the cap of elements, and when more elements
\* than the cap lie where the walk goes (not below a hidden or skipped element)
\* the root's last child is the one truncation note.
C28_CapAndTruncation ==
  call.op = "snapshot" =>
    /\ call.out.nodeCount <= MAX_NODES
    /\ Cardinality({i \in 1..Len(call.in) : ~BelowHidden(call.in, i)}) > MAX_NODES
         => TruncationNoted

\* A body of three visible elements with the cap at two: two elements were
\* processed and the note follows the nodes built.
C28_Witness ==
  /\ call.op = "snapshot"
  /\ Len(call.in) = 3
  /\ \A i \in 1..3 : call.in[i].tag = "button" /\ call.in[i].parent = 0
  /\ call.out.nodeCount = MAX_NODES
  /\ Len(call.out.root.children) = 3
  /\ TruncationNoted

\* C26: fill_form attempts every field in list order whatever fails, the filled
\* count and the collected errors add up to the number of fields, each failing
\* field has its error, and the result has errors exactly when a field failed.
C26_BatchNeverAborts ==
  call.op = "fill_form" =>
    LET n == Len(call.in)
        failed == {k \in 1..n : FieldError(call.in[k]) # "none"}
    IN /\ call.out.attempted = [k \in 1..n |-> k]
       /\ call.out.filledCount + Len(call.out.errors) = n
       /\ {e[1] : e \in {call.out.errors[j] : j \in 1..Len(call.out.errors)}} = failed
       /\ call.out.hasErrors <=> failed # {}

\* Three fields of which the first has a stale ref and the second the wrong
\* element: the third was filled all the same.
C26_Witness ==
  /\ call.op = "fill_form"
  /\ Len(call.in) = 3
  /\ ~call.in[1].refOk
  /\ FieldError(call.in[2]) = "not a checkbox"
  /\ call.out.filledCount = 1
  /\ Len(call.out.errors) = 2

\* C27: for each requested value the option selected has that value as its text
\* whenever some option has, and is matched by its value attribute only when no
\* option's text matches.
C27_TextBeforeValue ==
  call.op = "select_option" =>
    \A k \in 1..Len(call.out.picked) :
      (\E o \in 1..Len(call.in.options) : call.in.options[o].text = call.in.values[k])
        => call.in.options[call.out.picked[k]].text = call.in.values[k]

\* C24: every response the background posts, those it copies from the content
\* script included, has a result and no error when success is true, and an
\* error and no result when success is false.
C24_ResultXorError ==
  \A k \in 1..Len(bg) : \A j \in 1..Len(bg[k].posts) :
    LET r == bg[k].posts[j]
    IN IF r.success
       THEN r.result # "undefined" /\ r.error = "undefined"
       ELSE r.result = "undefined" /\ r.error # "undefined"

\* A command forwarded to the content script was answered with the content
\* script's error.
C24_Witness ==
  /\ Len(bg) = 1
  /\ bg[1].route = "content" /\ bg[1].phase = "done"
  /\ ~bg[1].posts[1].success
  /\ bg[1].posts[1].error = "thrown"

\* C25: the response to an evaluate request whose expression is not a function,
\* throws in the page or times out has success false and the error; a response
\* with success true carries the value the script produced.
C25_EvaluateErrors ==
  call.op = "request" /\ call.in.action = "evaluate" =>
    /\ call.in.h # "returns" =>
         ~call.out.success /\ call.out.error # "undefined"
    /\ call.out.success => call.in.h = "returns" /\ call.out.result = "value"

\* C29: bytes of a partial frame left in the broker's decoder by one connection
\* are never combined with bytes of a later connection.  The decoder holds no
\* bytes while no client is attached and when a client has just been attached,
\* and while one client stays attached its buffer is a suffix of what it held
\* followed by the bytes that client delivered in the step, so what is decoded
\* for a client is decoded from that client's bytes alone.
C29_Step ==
  /\ client = 0 => decoder = <<>>
  /\ (client = 0 /\ client' # 0) => decoder' = <<>>
  /\ (client # 0 /\ client' = client) =>
       /\ IsSuffix(decoder', decoder \o Delivered)
       /\ Len(wire') = Len(wire) => decoder' = decoder

C29_NoBytesAcrossConnections == [][C29_Step]_vars

\* The first connection ended with the bytes of a frame it never completed in
\* the decoder, and the second client has part of a frame of its own there.
C29_Witness ==
  /\ lastError = "Frame too large" /\ sock[1] = "closed"
  /\ client = 2 /\ sock[2] = "open"
  /\ Len(decoder) \in 1..3

\* C30: every waitForConnection call settles exactly once.  It resolves at once
\* when a client is attached; otherwise it resolves at the next attachment if
\* its timer has not fired by then and rejects when the timer fires.  A waiter
\* that timed out has no listener left and is not resolved by a later
\* attachment, and one attachment resolves every waiter still waiting.
C30_Step ==
  /\ Len(waits') = Len(waits) + 1 =>
       LET w == waits'[Len(waits')]
       IN /\ SubSeq(waits', 1, Len(waits)) = waits
          /\ IF client # 0
             THEN w.settles = <<"resolve">> /\ ~w.listener /\ w.timer = "none"
             ELSE w.settles = <<>> /\ w.listener /\ w.timer = "armed"
  /\ \A k \in DOMAIN waits :
       /\ waits[k].settles # <<>> => waits'[k] = waits[k]
       /\ (waits[k].settles = <<>> /\ client = 0 /\ client' # 0) =>
            waits'[k].settles = <<"resolve">>
       /\ (waits[k].settles = <<>> /\ waits'[k].settles # <<>> /\ client' = client) =>
            waits'[k].settles = <<"reject">>

C30_SettlesOnce ==
  /\ [](\A k \in DOMAIN waits :
         /\ Len(waits[k].settles) <= 1
         /\ waits[k].listener = (waits[k].timer = "armed")
         /\ waits[k].listener = (waits[k].settles = <<>>)
         /\ waits[k].timer = "fired" => waits[k].settles = <<"reject">>)
  /\ [][C30_Step]_vars
  /\ \A k \in 1..MaxWaits :
       [](k \in DOMAIN waits => <>(k \in DOMAIN waits /\ Len(waits[k].settles) = 1))

\* The only attachment so far resolved two waiters at once, after the timer of
\* an earlier waiter had fired.
C30_Witness ==
  /\ Len(waits) = 3
  /\ waits[1].timer = "fired" /\ waits[1].settles = <<"reject">>
  /\ waits[2].timer = "cleared" /\ waits[2].settles = <<"resolve">>
  /\ waits[3].timer = "cleared" /\ waits[3].settles = <<"resolve">>
  /\ client = 1 /\ emitted.connected = 1

\* C38: rejecting a second incoming connection leaves the session of the
\* attached client as it was: the attached socket, the pending table and its
\* timers, the decoder buffer, the heartbeat state and the has-ever-connected
\* flag do not change, and neither 'client-connected' nor
\* 'client-disconnected' is emitted; only the arriving socket is destroyed.
C38_Step ==
  (nsock' = nsock + 1 /\ client # 0) =>
    /\ UNCHANGED <<client, pending, cmdId, timerArmed, wr, settles, decoder, hb,
                   hasEverConnected, emitted, server, lastError, waits>>
    /\ sock'[nsock'] = "rejected"
    /\ \A s \in Socks \ {nsock'} : sock'[s] = sock[s]

C38_RejectionLeavesSession == [][C38_Step]_vars

\* A second connection was turned away while the first client had a command
\* pending and a ping unanswered.
C38_Witness ==
  /\ client = 1 /\ sock[1] = "open" /\ sock[2] = "rejected"
  /\ \E i \in Ids : pending[i] # 0 /\ timerArmed[pending[i]]
  /\ hb.awaitingPong /\ hb.pongTimeout = "armed"
  /\ emitted = [connected |-> 1, disconnected |-> 0]

\* C37: the broker closes the connection on heartbeat grounds only when a ping
\* is unanswered at the moment the pong timer fires, so a client whose pongs
\* arrive before that is never closed for it.  A ping is sent only when none
\* is outstanding, and the pong timer is armed only while a pong is
\* outstanding on an attached client.
C37_Step ==
  /\ (lastError' = "Heartbeat timeout" /\ client # 0 /\ client' = client
        /\ sock[client] = "open" /\ sock'[client] = "destroyed")
       => (hb.awaitingPong /\ hb.pongTimeout = "armed" /\ hb'.pongTimeout = "fired")
  /\ (hb'.awaitingPong /\ hb'.pongTimeout = "armed" /\ hb.pongTimeout # "armed")
       => (~hb.awaitingPong /\ hb.interval /\ client # 0 /\ client' = client)
  /\ (hb.awaitingPong /\ ~hb'.awaitingPong) => hb'.pongTimeout # "armed"

C37_HeartbeatOnlyOnSilence ==
  /\ [](hb.pongTimeout = "armed" => (hb.awaitingPong /\ hb.interval /\ client # 0))
  /\ [](hb.awaitingPong => hb.pongTimeout = "armed")
  /\ [][C37_Step]_vars

\* The only client so far has been attached throughout, no error was ever
\* emitted, and a ping is outstanding with the pong timer running.
C37_Witness ==
  /\ client = 1 /\ sock[1] = "open" /\ nsock = 1
  /\ hb.interval /\ hb.awaitingPong /\ hb.pongTimeout = "armed"
  /\ lastError = "none"

\* C36: a complete, valid response frame at the front of the bytes the broker
\* has received is dispatched to its pending command by the 'data' event that
\* completes it, whatever follows it in the same event: a framing violation
\* behind it kills the connection only after the response was delivered.
C36_Step ==
  IsDeliver =>
    LET buf == decoder \o Delivered
    IN \A i \in Ids :
         (/\ Len(buf) >= 4
          /\ ReadUInt32BE(buf) <= IPC_MAX_FRAME
          /\ Len(buf) >= 4 + ReadUInt32BE(buf)
          /\ JsonParse(SubSeq(buf, 5, 4 + ReadUInt32BE(buf))) = [type |-> "response", id |-> i]
          /\ pending[i] # 0)
         => (settles'[pending[i]] # <<>> /\ settles'[pending[i]][1].kind = "response")

C36_ValidFrameBeforeViolation == [][C36_Step]_vars

\* C39: at any time the background has at most one open native port and at
\* most one reconnect timer scheduled, and no reconnect timer is scheduled
\* while a port is open, however connect failures, disconnects, inbound
\* messages and timer firings interleave.
C39_OnePortOneTimer ==
  /\ live.ports \in {0, 1} /\ live.timers \in {0, 1}
  /\ live.ports + live.timers <= 1
  /\ (port = "open") = (live.ports = 1)
  /\ (reconnectTimer # 0) = (live.timers = 1)

\* The port went down, the first reconnect attempt failed, and the timer of
\* the second attempt is the only live object.
C39_Witness ==
  /\ live = [ports |-> 0, timers |-> 1]
  /\ port = "null" /\ reconnectTimer = 2 * BASE_RECONNECT_DELAY_MS
  /\ reconnects = 1

\* C40: the truncation note is appended to a snapshot's root only if an element
\* was turned away because the node cap had been reached, that is, only if
\* more elements than the cap lie where the walk goes; a body of at most the
\* cap of elements, exactly the cap included, gets no truncation note.
C40_NoteOnlyIfSkipped ==
  call.op = "snapshot" =>
    /\ TruncationNoted =>
         Cardinality({i \in 1..Len(call.in) : ~BelowHidden(call.in, i)}) > MAX_NODES
    /\ Len(call.in) <= MAX_NODES => ~TruncationNoted

\* The nodes of a forest, parents before children.
RECURSIVE AllNodes(_)
AllNodes(nodes) ==
  IF nodes = <<>> THEN <<>>
  ELSE <<Head(nodes)>> \o AllNodes(Head(nodes).children) \o AllNodes(Tail(nodes))

\* The elements of M met first on the way down from element p, in document
\* order, looking at the children of p from element i on: a child in M stands
\* for itself, a child outside M for what lies below it.
RECURSIVE PromotedTo(_, _, _, _)
PromotedTo(doc, M, p, i) ==
  IF i > Len(doc) THEN <<>>
  ELSE IF doc[i].parent # p THEN PromotedTo(doc, M, p, i + 1)
  ELSE (IF i \in M THEN <<i>> ELSE PromotedTo(doc, M, i, i + 1))
       \o PromotedTo(doc, M, p, i + 1)

\* C34: in every tree a snapshot returns no node has role generic with an
\* empty name and no ref (the elements of the model have no name): the
\* element children of every node are, in document order, the materialised
\* elements nearest below its element, so what lies inside an element that got
\* no node hangs from the nearest ancestor that got one.  On a page below the
\* cap every interactive element outside hidden subtrees has a node.
C34_NoGenericNode ==
  call.op \in {"snapshot", "snapshot of a small page"} =>
    LET all == AllNodes(<<call.out.root>>)
        M == {all[k].el : k \in 1..Len(all)} \ {0}
    IN /\ \A k \in 1..Len(all) :
            /\ ~(all[k].role = "generic" /\ all[k].ref = -1)
            /\ all[k].role # "text" =>
                 LET kids == SelectSeq(all[k].children, LAMBDA c : c.role # "text")
                 IN [j \in 1..Len(kids) |-> kids[j].el]
                      = PromotedTo(call.in, M, all[k].el, all[k].el + 1)
       /\ call.op = "snapshot of a small page" =>
            \A i \in 1..Len(call.in) :
              (call.in[i].tag \in {"button", "onclick"} /\ ~BelowHidden(call.in, i))
                => i \in M

\* A div that holds two buttons got no node: the buttons are children of the
\* root.
C34_Witness ==
  /\ call.op = "snapshot of a small page"
  /\ call.in = <<[parent |-> 0, tag |-> "div"], [parent |-> 1, tag |-> "button"],
                 [parent |-> 1, tag |-> "button"]>>
  /\ Len(call.out.root.children) = 2
  /\ call.out.root.children[1].el = 2 /\ call.out.root.children[2].el = 3

\* C35: press_key dispatches exactly two keyboard events, keydown followed by
\* keyup, both to the focused element, or to the document body when nothing
\* has the focus.
C35_KeydownThenKeyup ==
  call.op = "press_key" =>
    LET target == IF call.in = "null" THEN "body" ELSE call.in
    IN call.out = <<[type |-> "keydown", target |-> target],
                    [type |-> "keyup", target |-> target]>>

\* C31: the navigation wait on a tab settles exactly once, in one of three
\* ways: with success when the tab is complete, with the tab-closed error when
\* the tab is removed first, with the timeout error when the timer fires
\* first.  Until then its timer is armed and both listeners are registered;
\* from then on the timer is not armed, the listeners are removed, and no tab
\* event or timer changes the wait or its outcome.
C31_Step ==
  \A k \in DOMAIN nav.waits :
    LET w == nav.waits[k]
        v == nav'.waits[k]
    IN /\ (w.settles = <<>> /\ v.settles # <<>>) =>
            /\ Len(v.settles) = 1
            /\ v.settles[1] = "complete" => nav'.tabs[w.tabId] = "complete"
            /\ v.settles[1] = "closed" =>
                 (nav.tabs[w.tabId] # "removed" /\ nav'.tabs[w.tabId] = "removed")
            /\ v.settles[1] = "timeout" => (w.timer = "armed" /\ v.timer = "fired")
       /\ (w.settles = <<>> /\ nav.tabs[w.tabId] # "removed"
             /\ nav'.tabs[w.tabId] = "removed") => v.settles = <<"closed">>
       /\ (w.settles = <<>> /\ nav.tabs # nav'.tabs
             /\ nav'.tabs[w.tabId] = "complete" /\ nav.tabs[w.tabId] # "complete")
            => v.settles = <<"complete">>
       /\ w.settles # <<>> =>
            /\ v.settles[1] = w.settles[1]
            /\ v.timer = w.timer /\ v.onUpdated = w.onUpdated /\ v.onRemoved = w.onRemoved
            /\ nav.tabs # nav'.tabs => v = w

C31_SettlesOnce ==
  /\ [](\A k \in DOMAIN nav.waits :
         LET w == nav.waits[k]
         IN /\ (w.settles = <<>>) = (w.timer = "armed")
            /\ (w.settles = <<>>) = w.onUpdated
            /\ (w.settles = <<>>) = w.onRemoved
            /\ w.settles # <<>> => w.settles[1] \in {"complete", "closed", "timeout"})
  /\ [][C31_Step]_vars
  /\ \A k \in 1..MaxNavs :
       [](k \in DOMAIN nav.waits =>
            <>(k \in DOMAIN nav.waits /\ nav.waits[k].settles # <<>>))

\* Two waits on the same tab: the first timed out while the tab was loading,
\* the second was rejected when the tab was closed.
C31_Witness ==
  /\ Len(nav.waits) = 2
  /\ nav.waits[1].tabId = 1 /\ nav.waits[2].tabId = 1
  /\ nav.waits[1].settles = <<"timeout">> /\ nav.waits[1].timer = "fired"
  /\ nav.waits[2].settles = <<"closed">> /\ nav.waits[2].timer = "cleared"
  /\ nav.tabs[1] = "removed"

\* C32: a wait_for for a text that a mutation has put into the body, and that
\* is still there when the timeout expires, never resolves with matched false.
C32_Step ==
  (wf.mode = "text" /\ wf.settles = <<>> /\ wf'.settles = <<FALSE>>) => ~wf.present

C32_PresentTextMatches == [][C32_Step]_vars

\* C33: every wait_for call that names text or textGone settles exactly once
\* and no later than its timeout: with matched true at the first check that
\* finds the condition satisfied, otherwise with matched false when the
\* timeout fires.  Once it has settled the observer is disconnected and
\* neither timer is pending, so the result stands.
C33_Step ==
  /\ (wf'.mode \in {"text", "textGone"} /\ wf.settles = <<>> /\ wf'.settles # <<>>) =>
       /\ wf'.settles = <<TRUE>> =>
            /\ (wf'.mode = "text") = wf'.present
            /\ wf.mode = "none" \/ (wf.debounce # "null" /\ wf'.debounce = "null")
       /\ wf'.settles = <<FALSE>> => (wf.timeout = "armed" /\ wf'.timeout = "fired")
       /\ Len(wf'.settles) = 1
  /\ (wf.settles = <<>> /\ wf.debounce \in {"early", "late"} /\ wf'.debounce = "null"
        /\ (wf.mode = "text") = wf.present) => wf'.settles = <<TRUE>>
  /\ (wf.mode = "none" /\ wf'.mode \in {"text", "textGone"}
        /\ (wf'.mode = "text") = wf'.present) => wf'.settles = <<TRUE>>
  /\ wf.settles # <<>> =>
       /\ wf'.settles = wf.settles
       /\ wf'.timeout = wf.timeout /\ wf'.debounce = wf.debounce /\ ~wf'.observer

C33_SettlesOnce ==
  /\ [](/\ Len(wf.settles) <= 1
        /\ wf.settles # <<>> =>
             (~wf.observer /\ wf.timeout # "armed" /\ wf.debounce \notin {"early", "late"})
        /\ (wf.mode \in {"text", "textGone"} /\ wf.settles = <<>>)
             => (wf.observer /\ wf.timeout = "armed")
        /\ wf.timeout = "fired" => wf.settles # <<>>)
  /\ [][C33_Step]_vars
  /\ (wf.mode # "none") ~> (wf.settles # <<>>)

\* A wait for a text to go away: after two mutations, the second of which
\* removed the text, the debounced check resolved the wait and cleared the
\* timeout.
C33_Witness ==
  /\ wf.mode = "textGone" /\ ~wf.present /\ wf.muts = 2
  /\ wf.settles = <<TRUE>> /\ wf.timeout = "cleared" /\ wf.debounce = "null"

====
